---- MODULE Spec2Model ----
(***************************************************************************)
(* Blink Monitor client: the App component (auth step machine, live-view   *)
(* registry playingItems, theater mode, logout) and the MpegtsPlayer       *)
(* component (connection attempts, 45 s readiness timer, 5xx backoff       *)
(* retries), modelled from src/src/App.tsx, src/src/components/            *)
(* CameraCard.tsx and the MpegtsPlayer part of src/unnamed/part_001.       *)
(* The local server's allowlist guard and proxy endpoints are not part of  *)
(* the client sources; they follow spec.md 4.2 and 4.4.                    *)
(*                                                                         *)
(* Spec       the program from its start: startup check, sign-in, PIN,     *)
(*            refresh, sign-out, with a live view open                     *)
(* SpecLive   live-view handlers over the whole inventory                  *)
(* SpecPlayer one camera, every player event                               *)
(* SpecProxy  clips and thumbnails through the local server                *)
(* SpecClips  the clips tab: select, delete, refresh with hidden clips     *)
(* SpecGateway every command of the dashboard answered by every reply      *)
(* SpecStreams two players receiving HTTP and non-HTTP errors              *)
(* SpecGrid   live-view handlers and clip playback over five cameras       *)
(* SpecDownload the download of one clip card, desktop and hosted          *)
(* SpecNotify refreshes while the cameras record and the cloud drops clips *)
(* SpecSession refreshes, notifications and sign-out of a signed-in client *)
(* SpecPages  paging through a listing of three pages                      *)
(* SpecRetry  getServerPortWithRetry call by call, under fairness          *)
(***************************************************************************)
EXTENDS Integers, Sequences, FiniteSets, Bags, TLC

\* ------------------------------------------------------------------ bounds
\* retryToken of one player instance is followed up to this value
MaxRetryToken == 4
\* Date.now() as used for the restart nonce takes the values 1..MaxClock
MaxClock == 2
\* pending backoff timers (live or leaked) followed per player slot
MaxPending == 2
\* sign-outs in one run
MaxSessions == 1
\* submissions of one form awaiting their answer at once
MaxSubmits == 1
\* handlers suspended at once when the user starts another
MaxFlows == 2
\* requests the local server serves at once
MaxRequests == 1
\* redirects the local server follows
MaxRedirects == 1
\* load-more, arm and delete handlers suspended at once
MaxClipFlows == 1

\* bytes of a download
MaxBytes == 4
\* newClipCount is followed up to this value
MaxNewClips == 2

\* ------------------------------------------------- program constants
\* retryRef.current < 3
MaxAutoRetries == 3
\* Math.min(2000 * retryRef.current, 8000)
RetryBaseMs == 2000
RetryCapMs == 8000
\* next.size >= 4
MaxPlaying == 4

\* hiddenMediaTtlMs, in ticks of the clock
hiddenMediaTtlMs == 1
\* attempts of getServerPortWithRetry
maxAttempts == 10
\* the port the local media server answers on
Port == 1

VARIABLES
  step,              \* "login" | "pin" | "dashboard"
  loading,           \* App loading flag (disables the sign-in buttons)
  error,             \* App error text shown on the login / pin screens
  serverPort,        \* 0 = null
  sessionTokenRef,
  fetchInFlightRef,
  fetchQueuedRef,
  flows,             \* bag of async handlers suspended at an await
  event,             \* what the last handler step was (observation only)
  cameras,           \* inventory, a sequence of camera records
  networks,          \* sequence of network ids
  media,             \* clip list, a sequence of media records
  mediaPage,
  mediaHasMore,
  loadingMoreClips,
  selectMode,
  selectedMediaIds,
  deletingSelected,
  hiddenMediaIds,    \* Map id -> time of deletion: set of << id, ts >>
  lastSeenMediaIdRef,
  newClipCount,      \* badge of the clips tab
  notified,          \* clips announced by the notifications sent so far
  seenClips,         \* <<>> before the first successful refresh, then << ids
                     \* listed by the refreshes so far >> (observation only)
  mediaThumbCache,   \* keys of the Map: the thumbnail paths already fetched
  activeTab,         \* "cameras" | "clips"
  playingItems,      \* Map in insertion order: sequence of entries
  theaterMode,
  recording,
  clock,             \* Date.now()
  players,           \* MpegtsPlayer instance per render slot
  account,           \* what the cloud account holds: [cams, nets]
  notificationIconPath,  \* FALSE = null, TRUE = resolved
  proxyReqs,         \* requests the local server is serving
  fetched,           \* every GET made to a media URL, and by whom
  lastAnswer,        \* the local server's last answer (<<>> = none yet)
  cards              \* download state of the MediaCard of each clip id

\* session and async state
sessVars == <<step, loading, error, serverPort, sessionTokenRef, fetchInFlightRef,
              fetchQueuedRef, flows>>

\* outside the handlers' reach
envVars == <<account, notificationIconPath, proxyReqs, fetched, lastAnswer, cards>>

\* inventory and clips
dataVars == <<cameras, networks, media, mediaPage, mediaHasMore, loadingMoreClips,
              selectMode, selectedMediaIds, deletingSelected, hiddenMediaIds,
              mediaThumbCache, lastSeenMediaIdRef, newClipCount, notified, seenClips>>

vars == <<sessVars, event, dataVars, activeTab, playingItems, theaterMode, recording,
          clock, players, envVars>>

\* everything of the webview but its players
clientVars == <<sessVars, event, dataVars, activeTab, playingItems, theaterMode, recording,
               clock, account, notificationIconPath, cards>>

appVars == <<sessVars, event, dataVars, activeTab, playingItems, theaterMode, recording,
             clock, envVars>>

\* ---------------------------------------------------------------- helpers
Min(a, b) == IF a < b THEN a ELSE b

RemoveAt(s, i) == [k \in 1..(Len(s) - 1) |-> IF k < i THEN s[k] ELSE s[k + 1]]

SeqFilterOut(s, id) == SelectSeq(s, LAMBDA e : e.id # id)

\* ------------------------------------------------------------ inventory
Cam(id, kind, net) == [id |-> id, product_type |-> kind, network_id |-> net]

\* what get_raw_homescreen answers in this model: two cameras and an owl that
\* shares the numeric id of the first camera but lives on another network
Inventory == << Cam(1, "camera", 1), Cam(2, "camera", 1), Cam(1, "owl", 2) >>

InventoryNetworks == << 1, 2 >>

\* an account with more cameras than the grid plays at once
Grid == << Cam(1, "camera", 1), Cam(2, "camera", 1), Cam(3, "camera", 1),
          Cam(4, "camera", 1), Cam(5, "camera", 1) >>

\* ---- media URLs: scheme, embedded credentials, host as its labels
Url(scheme, creds, host) == [scheme |-> scheme, creds |-> creds, host |-> host]

BlinkUrl == Url("https", FALSE, << "rest", "immedia-semi", "com" >>)

OtherUrl == Url("https", FALSE, << "evil", "com" >>)

\* the allowlisted domain as a prefix of a foreign host
LookalikeUrl == Url("https", FALSE, << "immedia-semi", "com", "evil", "com" >>)

CredsUrl == Url("https", TRUE, << "rest", "immedia-semi", "com" >>)

FileUrl == Url("file", FALSE, << "rest", "immedia-semi", "com" >>)

\* a host the allowlist names exactly
ExactUrl == Url("http", FALSE, << "blinkforhome", "com" >>)

Targets == {BlinkUrl, ExactUrl, OtherUrl, LookalikeUrl, CredsUrl, FileUrl}

\* a listing whose clips point anywhere (media_url / thumbnail_url: <<>> = none)
Clip(id, at, mediaUrl, thumb) ==
  [id |-> id, created_at |-> at, media_url |-> mediaUrl, thumbnail_url |-> thumb]

AnyMedia ==
  << Clip(5, 50, << BlinkUrl >>, << BlinkUrl >>),
     Clip(4, 40, << OtherUrl >>, << CredsUrl >>),
     Clip(3, 30, << LookalikeUrl >>, << OtherUrl >>),
     Clip(2, 20, << FileUrl >>, << ExactUrl >>) >>

\* the account's media listing, newest first
MediaItems == << Clip(7, 20, <<>>, <<>>), Clip(1, 10, << BlinkUrl >>, << BlinkUrl >>) >>

\* the second page of the listing: older clips, the first one listed on both pages
OlderItems == << Clip(1, 10, << BlinkUrl >>, << BlinkUrl >>),
                Clip(9, 5, << BlinkUrl >>, << OtherUrl >>) >>

\* ================================================================ MediaCard
\* the clips a card can be rendered for
CardIds == {MediaItems[k].id : k \in 1..Len(MediaItems)}

\* download state of a card: downloadProgress -1 = null, downloadError "" = null;
\* pc is the await handleDownload is suspended at, total 0 = size not announced,
\* requests counts the download requests issued since the click
NoCard(desktop) ==
  [desktop |-> desktop, downloading |-> FALSE, downloadProgress |-> -1,
   downloadError |-> "", pc |-> "idle", total |-> 0, received |-> 0, requests |-> 0]

\* Math.round((received / total) * 100), total > 0
Round(received, total) == (200 * received + total) \div (2 * total)

Percent_uncapped(received, total) == Round(received, total)

\* Math.min(100, Math.round((received / total) * 100))
Percent(received, total) == Min(100, Round(received, total))

\* handleDownload up to its first await; mediaUrl <<>> = the clip has none
StartDownload(card, mediaUrl) ==
  IF mediaUrl = <<>>
  THEN [card EXCEPT !.downloadError = "Missing clip URL.", !.downloading = FALSE,
                    !.requests = 0]
  ELSE [card EXCEPT !.downloadError = "", !.downloadProgress = 0, !.downloading = TRUE,
                    !.received = 0, !.total = 0,
                    !.pc = IF card.desktop THEN "save" ELSE "fetch",
                    !.requests = IF card.desktop THEN 0 ELSE 1]

\* a catch that asks for the clip once more
DownloadFailed_again(card, msg) ==
  [card EXCEPT !.pc = IF card.desktop THEN "invoke" ELSE "fetch", !.requests = @ + 1]

\* the catch and finally blocks of handleDownload
DownloadFailed(card, msg) ==
  [card EXCEPT !.downloadError = msg, !.downloading = FALSE, !.pc = "idle"]

\* downloadClip returned `completed`, then the finally block
DownloadReturned(card, completed) ==
  [card EXCEPT !.downloadProgress = IF completed THEN 100 ELSE @,
               !.downloading = FALSE, !.pc = "idle"]

\* ================================================================ MpegtsPlayer
\* One record per render slot.  timers holds the delays of the pending backoff
\* timers of the mounted instance in scheduling order; refLive says that
\* retryTimerRef.current is the id of the last of them.  orphans counts pending
\* backoff timers whose instance has been unmounted.
NoPlayer ==
  [ mounted |-> FALSE, url |-> <<>>, retryToken |-> 0, retryRef |-> 0,
    startedRef |-> FALSE, loading |-> FALSE, error |-> "none",
    player |-> FALSE, timeout |-> FALSE, timers |-> <<>>, refLive |-> FALSE,
    orphans |-> 0,
    autoRetries |-> 0, lastDelay |-> 0, timedOut |-> FALSE, orphanFired |-> FALSE ]

\* window.clearTimeout(retryTimerRef.current); retryTimerRef.current = null
ClearRetryTimer(p) ==
  IF p.refLive
    THEN [p EXCEPT !.timers = SubSeq(p.timers, 1, Len(p.timers) - 1), !.refLive = FALSE]
    ELSE p

\* cleanup of the connection effect: clearTimeout(timeout), clear the
\* referenced retry timer, destroy the player
EffectCleanup(p) ==
  [ClearRetryTimer(p) EXCEPT !.timeout = FALSE, !.player = FALSE]

\* the reset effect on [effectiveUrl]
ResetEffect(p) ==
  [ClearRetryTimer(p) EXCEPT !.startedRef = FALSE, !.retryRef = 0,
                             !.loading = TRUE, !.error = "none"]

\* the connection effect on [effectiveUrl]: createPlayer, load, arm the 45 s timer
ConnectEffect(p) ==
  [p EXCEPT !.error = "none", !.loading = TRUE, !.player = TRUE,
            !.timeout = TRUE, !.timedOut = FALSE]

\* effectiveUrl changed: cleanup, then both effects in declaration order
Reconnect(p) == ConnectEffect(ResetEffect(EffectCleanup(p)))

\* first render of a new instance (useState / useRef initial values) and its effects;
\* timers that an earlier instance of the slot leaked stay pending as orphans
MountPlayer(old, url) ==
  ConnectEffect(ResetEffect(
    [NoPlayer EXCEPT !.mounted = TRUE, !.url = url, !.loading = TRUE,
                     !.orphans = old.orphans, !.orphanFired = old.orphanFired]))

\* the url prop of a mounted instance changed
ChangeUrl(p, url) ==
  Reconnect([p EXCEPT !.url = url, !.autoRetries = 0, !.lastDelay = 0])

\* the instance leaves the tree: effect cleanup; unreferenced timers stay pending
UnmountPlayer(p) ==
  LET c == EffectCleanup(p)
  IN  [NoPlayer EXCEPT !.orphans = p.orphans + Len(c.timers),
                       !.orphanFired = p.orphanFired]

\* markStarted
markStarted(p) ==
  IF ~p.startedRef
    THEN [p EXCEPT !.startedRef = TRUE, !.loading = FALSE,
                   !.autoRetries = 0, !.lastDelay = 0]
    ELSE p

\* delayMs of the retry scheduled when retryRef has just become n
delayMs(n) == Min(RetryBaseMs * n, RetryCapMs)

\* retrying whatever the status code was
shouldRetry_anyStatus(ev) == ev.detail = "HttpStatusCodeInvalid"

\* shouldRetry
shouldRetry(ev) == ev.detail = "HttpStatusCodeInvalid" /\ ev.code >= 500

\* player.on(ERROR)
OnError(p, ev) ==
  LET failed == [p EXCEPT !.error = "stream", !.loading = FALSE]
  IN  IF shouldRetry(ev) /\ p.retryRef < MaxAutoRetries
        THEN [failed EXCEPT !.retryRef = p.retryRef + 1,
                            !.loading = TRUE, !.error = "none",
                            !.timers = Append(p.timers, delayMs(p.retryRef + 1)),
                            !.refLive = TRUE]
        ELSE failed

\* player.on(STATISTICS_INFO)
OnStatistics(p) == markStarted([p EXCEPT !.loading = FALSE])

\* video 'playing' listener
handlePlaying(p) == markStarted(p)

\* a timer callback that does not look at startedRef
OnTimeout_unconditional(p) ==
  [p EXCEPT !.timeout = FALSE, !.error = "timeout", !.loading = FALSE, !.timedOut = TRUE]

\* the 45 s timer callback
OnTimeout(p) ==
  LET q == [p EXCEPT !.timeout = FALSE]
  IN  IF ~p.startedRef
        THEN [q EXCEPT !.error = "timeout", !.loading = FALSE, !.timedOut = TRUE]
        ELSE q

\* a pending backoff timer may fire unless one scheduled earlier has a delay
\* that is not longer (that one is due first)
CanFire(p, i) ==
  /\ i \in 1..Len(p.timers)
  /\ \A j \in 1..(i - 1) : p.timers[j] > p.timers[i]

\* the backoff timer callback: setRetryToken(t => t + 1), hence a new effectiveUrl
OnRetryTimer(p, i) ==
  LET q == [p EXCEPT !.timers = RemoveAt(p.timers, i),
                     !.refLive = p.refLive /\ i # Len(p.timers),
                     !.retryToken = p.retryToken + 1,
                     !.autoRetries = p.autoRetries + 1,
                     !.lastDelay = p.timers[i]]
  IN  Reconnect(q)

\* handleRetry ("Retry Stream" button)
handleRetry(p) ==
  Reconnect([p EXCEPT !.retryToken = p.retryToken + 1,
                      !.autoRetries = 0, !.lastDelay = 0])

\* ======================================================================== App
\* ---- playingItems: Map<number, {id, type, url, camera?}> in insertion order
Has(items, id) == \E k \in 1..Len(items) : items[k].id = id

Get(items, id) == items[CHOOSE k \in 1..Len(items) : items[k].id = id]

\* `http://localhost:${serverPort}/live/${networkId}/${camera.id}/${camera.product_type}
\*   ?serial=...&record=${recording}${nonce}`; nonce 0 = no &ts= parameter
LiveUrl(port, net, camera, rec, nonce) ==
  << "live", port, net, camera.id, camera.product_type, rec, nonce >>

ProxyUrl_direct(port, mediaUrl) == << "direct", port, mediaUrl >>

\* `http://localhost:${serverPort}/proxy?url=${encodeURIComponent(mediaUrl)}`
ProxyUrl(port, mediaUrl) == << "proxy", port, mediaUrl >>

\* camera.network_id ?? (networks.length === 1 ? networks[0]?.id : undefined); 0 = undefined
ResolveNetwork(camera, nets) ==
  IF camera.network_id # 0 THEN camera.network_id
  ELSE IF Len(nets) = 1 THEN nets[1] ELSE 0

\* an updater that makes room before it looks for the camera's own entry
LiveViewUpdate_evictFirst(prev, camera, url, isRestart) ==
  LET room == IF ~isRestart /\ Len(prev) >= MaxPlaying THEN Tail(prev) ELSE prev
  IN  Append(SeqFilterOut(room, camera.id),
             [id |-> camera.id, type |-> "camera", url |-> url, camera |-> <<camera>>])

\* the updater passed to setPlayingItems in handleLiveView
LiveViewUpdate(prev, camera, url, isRestart) ==
  LET dropped == SeqFilterOut(prev, camera.id)
      room    == IF camera.product_type = "media" THEN <<>>
                 ELSE IF ~isRestart /\ Len(dropped) >= MaxPlaying /\ ~Has(dropped, camera.id)
                        THEN Tail(dropped)
                        ELSE dropped
  IN  Append(room, [id |-> camera.id, type |-> "camera", url |-> url, camera |-> <<camera>>])

\* a clip that joins what is playing
PlayMediaUpdate_keep(prev, entry) == Append(prev, entry)

\* setPlayingItems(new Map([[item.id, entry]])) of handlePlayMedia
PlayMediaUpdate(prev, entry) == << entry >>

\* an updater that releases every view
StopUpdate_all(prev, id) == <<>>

\* the updater passed to setPlayingItems in handleStop(id)
StopUpdate(prev, id) == SeqFilterOut(prev, id)

\* ---- render: which MpegtsPlayer each slot holds (<<>> = none)
\* const playingItem = ... Array.from(playingItems.values())[playingItems.size - 1]
playingItem(items) == IF Len(items) > 0 THEN << items[Len(items)] >> ELSE <<>>

\* theaterMode && playingItem?.type === 'camera'
TheaterShows(st, theater, items) ==
  /\ st = "dashboard"
  /\ theater
  /\ playingItem(items) # <<>>
  /\ playingItem(items)[1].type = "camera"

\* const isLive = playingItems.has(camera.id) && playingItems.get(camera.id)?.type === 'camera'
isLive(items, camera) == Has(items, camera.id) /\ Get(items, camera.id).type = "camera"

\* a card that never learns that the theater overlay took its stream over
suppressLivePlayback_first(theater, items, camera) ==
  /\ theater
  /\ playingItem(items) # <<>>
  /\ items[1].type = "camera"
  /\ items[1].id = camera.id

\* suppressLivePlayback={theaterMode && playingItem?.type === 'camera' && playingItem.id === camera.id}
suppressLivePlayback(theater, items, camera) ==
  /\ theater
  /\ playingItem(items) # <<>>
  /\ playingItem(items)[1].type = "camera"
  /\ playingItem(items)[1].id = camera.id

\* CameraCard: isPlaying && playUrl && !suppressLivePlayback ? <MpegtsPlayer url={playUrl}/>
CardShows(st, tab, theater, items, cams, i) ==
  /\ st = "dashboard"
  /\ tab = "cameras"
  /\ i \in 1..Len(cams)
  /\ isLive(items, cams[i])
  /\ ~suppressLivePlayback(theater, items, cams[i])

TheaterSlot == 0

NSlots == Len(Grid)

Slots == 0..NSlots

WantUrl(st, tab, theater, items, cams, slot) ==
  IF slot = TheaterSlot
    THEN IF TheaterShows(st, theater, items) THEN playingItem(items)[1].url ELSE <<>>
    ELSE IF CardShows(st, tab, theater, items, cams, slot)
           THEN Get(items, cams[slot].id).url ELSE <<>>

\* React commit after a state change of App: unmount, mount or re-prop each slot
Reconcile(ps, st, tab, theater, items, cams) ==
  [s \in Slots |->
     LET want == WantUrl(st, tab, theater, items, cams, s)
     IN  IF want = <<>>
           THEN IF ps[s].mounted THEN UnmountPlayer(ps[s]) ELSE ps[s]
           ELSE IF ~ps[s].mounted THEN MountPlayer(ps[s], want)
                ELSE IF ps[s].url # want THEN ChangeUrl(ps[s], want)
                     ELSE ps[s]]

Commit ==
  players' = Reconcile(players, step', activeTab', theaterMode', playingItems', cameras')

\* ---- live-view handlers
\* handleLiveView(camera, isRestart) with the camera of card i
LiveView(i, isRestart, theater) ==
  LET camera    == cameras[i]
      networkId == ResolveNetwork(camera, networks)
      nonce     == IF isRestart THEN clock ELSE 0
      url       == LiveUrl(serverPort, networkId, camera, recording, nonce)
  IN  /\ theaterMode' = theater
      /\ playingItems' = IF networkId = 0 \/ serverPort = 0
                           THEN playingItems
                           ELSE LiveViewUpdate(playingItems, camera, url, isRestart)
      /\ event' = << "ui", "", "" >>
      /\ UNCHANGED <<sessVars, dataVars, activeTab, recording, clock, envVars>>
      /\ Commit

\* "Live View" button of a card, or the digit key of the camera
handleLiveView(i) ==
  /\ step = "dashboard"
  /\ i \in 1..Len(cameras)
  /\ LiveView(i, FALSE, theaterMode)

\* onTheaterMode of a playing card: setTheaterMode(true); handleLiveView(camera, true)
onTheaterMode(i) ==
  /\ step = "dashboard"
  /\ activeTab = "cameras"
  /\ i \in 1..Len(cameras)
  /\ isLive(playingItems, cameras[i])
  /\ LiveView(i, TRUE, TRUE)

\* handleStop(id): Stop button of a playing card
handleStop(i) ==
  /\ step = "dashboard"
  /\ activeTab = "cameras"
  /\ i \in 1..Len(cameras)
  /\ isLive(playingItems, cameras[i])
  /\ playingItems' = StopUpdate(playingItems, cameras[i].id)
  /\ theaterMode' = IF Len(playingItems') = 0 THEN FALSE ELSE theaterMode
  /\ event' = << "ui", "", "" >>
  /\ UNCHANGED <<sessVars, dataVars, activeTab, recording, clock, envVars>>
  /\ Commit

\* handleStop(): Stop All, the theater X button, Escape outside theater mode
handleStopAll ==
  /\ step = "dashboard"
  /\ Len(playingItems) > 0
  /\ playingItems' = <<>>
  /\ theaterMode' = FALSE
  /\ event' = << "ui", "", "" >>
  /\ UNCHANGED <<sessVars, dataVars, activeTab, recording, clock, envVars>>
  /\ Commit

\* Escape in theater mode: setTheaterMode(false)
escapeTheater ==
  /\ step = "dashboard"
  /\ theaterMode
  /\ theaterMode' = FALSE
  /\ event' = << "ui", "", "" >>
  /\ UNCHANGED <<sessVars, dataVars, activeTab, playingItems, recording, clock, envVars>>
  /\ Commit

\* handleToggleRecording: every camera entry gets the url with the new record flag
handleToggleRecording ==
  /\ step = "dashboard"
  /\ Len(playingItems) > 0
  /\ recording' = ~recording
  /\ playingItems' =
       [k \in 1..Len(playingItems) |->
          LET item == playingItems[k]
          IN  IF item.type = "camera" /\ item.camera # <<>>
                THEN LET camera    == item.camera[1]
                         networkId == IF camera.network_id # 0 THEN camera.network_id
                                      ELSE IF Len(networks) > 0 THEN networks[1] ELSE 0
                     IN  IF networkId # 0 /\ serverPort # 0
                           THEN [item EXCEPT !.url =
                                   LiveUrl(serverPort, networkId, camera, recording', 0)]
                           ELSE item
                ELSE item]
  /\ event' = << "ui", "", "" >>
  /\ UNCHANGED <<sessVars, dataVars, activeTab, theaterMode, clock, envVars>>
  /\ Commit

\* handlePlayMedia(item): the clip replaces everything that is playing
handlePlayMedia(m) ==
  /\ step = "dashboard"
  /\ activeTab = "clips"
  /\ m \in 1..Len(media)
  /\ serverPort # 0
  /\ media[m].media_url # <<>>
  /\ playingItems' = PlayMediaUpdate(playingItems,
                                     [id |-> media[m].id, type |-> "media",
                                      url |-> ProxyUrl(serverPort, media[m].media_url[1]),
                                      camera |-> <<>>])
  /\ event' = << "ui", "", "" >>
  /\ UNCHANGED <<sessVars, dataVars, activeTab, theaterMode, recording, clock, envVars>>
  /\ Commit

\* handleTabChange(tab)
handleTabChange(tab) ==
  /\ step = "dashboard"
  /\ activeTab' = tab
  /\ selectMode' = IF tab = "clips" THEN selectMode ELSE FALSE
  /\ selectedMediaIds' = IF tab = "clips" THEN selectedMediaIds ELSE {}
  /\ newClipCount' = IF tab = "clips" THEN 0 ELSE newClipCount
  /\ event' = << "ui", "", "" >>
  /\ UNCHANGED <<sessVars, cameras, networks, media, mediaPage, mediaHasMore,
                 loadingMoreClips, deletingSelected, hiddenMediaIds, mediaThumbCache,
                 lastSeenMediaIdRef, notified, seenClips,
                 playingItems, theaterMode, recording, clock, envVars>>
  /\ Commit

\* time passes: Date.now() advances
Tick ==
  /\ clock < MaxClock
  /\ clock' = clock + 1
  /\ event' = << "ui", "", "" >>
  /\ UNCHANGED <<sessVars, dataVars, activeTab, playingItems, theaterMode, recording, players, envVars>>

\* ---- events of a mounted player
ErrorEvents ==
  { [detail |-> "HttpStatusCodeInvalid", code |-> 500],
    [detail |-> "HttpStatusCodeInvalid", code |-> 503],
    [detail |-> "HttpStatusCodeInvalid", code |-> 404],
    [detail |-> "Exception", code |-> 0] }

Pending(p) == Len(p.timers) + p.orphans

PlayerError(s, ev) ==
  /\ players[s].player
  /\ Pending(players[s]) < MaxPending
  /\ players' = [players EXCEPT ![s] = OnError(@, ev)]
  /\ UNCHANGED appVars

PlayerStatistics(s) ==
  /\ players[s].player
  /\ players' = [players EXCEPT ![s] = OnStatistics(@)]
  /\ UNCHANGED appVars

PlayerPlaying(s) ==
  /\ players[s].player
  /\ players' = [players EXCEPT ![s] = handlePlaying(@)]
  /\ UNCHANGED appVars

PlayerTimeout(s) ==
  /\ players[s].timeout
  /\ players' = [players EXCEPT ![s] = OnTimeout(@)]
  /\ UNCHANGED appVars

PlayerRetryTimer(s, i) ==
  /\ players[s].mounted
  /\ players[s].retryToken < MaxRetryToken
  /\ CanFire(players[s], i)
  /\ players' = [players EXCEPT ![s] = OnRetryTimer(@, i)]
  /\ UNCHANGED appVars

\* a leaked timer of an unmounted instance fires: setRetryToken on a dead component
PlayerOrphanTimer(s) ==
  /\ players[s].orphans > 0
  /\ players' = [players EXCEPT ![s].orphans = @ - 1, ![s].orphanFired = TRUE]
  /\ UNCHANGED appVars

\* the "Retry Stream" button is rendered while error is set
PlayerRetryButton(s) ==
  /\ players[s].mounted
  /\ players[s].error # "none"
  /\ players[s].retryToken < MaxRetryToken
  /\ players' = [players EXCEPT ![s] = handleRetry(@)]
  /\ UNCHANGED appVars

\* ---- async handlers of App: the state they read and write
Cur ==
  [step |-> step, loading |-> loading, error |-> error, serverPort |-> serverPort,
   sessionTokenRef |-> sessionTokenRef, fetchInFlightRef |-> fetchInFlightRef,
   fetchQueuedRef |-> fetchQueuedRef, flows |-> flows,
   cameras |-> cameras, networks |-> networks, media |-> media,
   mediaPage |-> mediaPage, mediaHasMore |-> mediaHasMore,
   loadingMoreClips |-> loadingMoreClips, selectMode |-> selectMode,
   selectedMediaIds |-> selectedMediaIds, deletingSelected |-> deletingSelected,
   hiddenMediaIds |-> hiddenMediaIds, mediaThumbCache |-> mediaThumbCache,
   lastSeenMediaIdRef |-> lastSeenMediaIdRef, newClipCount |-> newClipCount,
   notified |-> notified, seenClips |-> seenClips,
   playingItems |-> playingItems, theaterMode |-> theaterMode,
   mediaSet |-> FALSE]

\* setMedia(next): a new array, whatever it holds
setMedia(a, next) == [a EXCEPT !.media = next, !.mediaSet = TRUE]

\* the effect on [media]: ids that left the list leave the selection
pruneSelection(a) ==
  LET ids == {a.media[k].id : k \in 1..Len(a.media)}
  IN [a EXCEPT !.selectedMediaIds = @ \cap ids]

\* the thumbnail paths fillMediaThumbCache will ask for: the clips that have one
\* not in the cache of this render
ThumbTodo(a) ==
  LET want == SelectSeq(a.media, LAMBDA m : /\ m.thumbnail_url # <<>>
                                           /\ m.thumbnail_url[1] \notin a.mediaThumbCache)
  IN [k \in 1..Len(want) |-> want[k].thumbnail_url[1]]

\* a handler suspended at an await: which handler, the awaited call, what its
\* first command answered, the session token it captured, who awaits it, and
\* what its closure holds
Flow(kind, pc, got, token, caller) ==
  [kind |-> kind, pc |-> pc, got |-> got, token |-> token, caller |-> caller,
   sel |-> {}, page |-> 0, hidden |-> {}, todo |-> <<>>, cancelled |-> FALSE,
   items |-> <<>>, pruned |-> {}, fresh |-> 0,
   attempt |-> 0, delayMs |-> 0, waited |-> <<>>]

ThumbFlow(todo) ==
  [Flow("thumb", "get_thumbnail_base64", "", 0, "none") EXCEPT !.todo = todo]

\* the cleanup of the thumbnail effect: cancelled = true for the run in flight
cancelThumbs(a) ==
  LET live == {g \in BagToSet(a.flows) : g.kind = "thumb" /\ ~g.cancelled}
  IN [a EXCEPT !.flows = (@ (-) SetToBag(live))
                         (+) SetToBag({[g EXCEPT !.cancelled = TRUE] : g \in live})]

\* fillMediaThumbCache up to its first `await invoke("get_thumbnail_base64")`
fillMediaThumbCache(a) ==
  IF a.serverPort = 0 \/ ThumbTodo(a) = <<>>
  THEN a
  ELSE [a EXCEPT !.flows = @ (+) SetToBag({ThumbFlow(ThumbTodo(a))})]

\* the effects that run after the render of `a`
Effects(a) ==
  LET a1 == IF a.mediaSet THEN pruneSelection(a) ELSE a
  IN IF a.mediaSet \/ a.serverPort # serverPort \/ a.mediaThumbCache # mediaThumbCache
     THEN fillMediaThumbCache(cancelThumbs(a1))
     ELSE a1

\* the handler step commits `a`, the tree is rendered again and its effects run
Assign(b, ev) ==
  LET a == Effects(b) IN
  /\ step' = a.step
  /\ loading' = a.loading
  /\ error' = a.error
  /\ serverPort' = a.serverPort
  /\ sessionTokenRef' = a.sessionTokenRef
  /\ fetchInFlightRef' = a.fetchInFlightRef
  /\ fetchQueuedRef' = a.fetchQueuedRef
  /\ flows' = a.flows
  /\ cameras' = a.cameras
  /\ networks' = a.networks
  /\ media' = a.media
  /\ mediaPage' = a.mediaPage
  /\ mediaHasMore' = a.mediaHasMore
  /\ loadingMoreClips' = a.loadingMoreClips
  /\ selectMode' = a.selectMode
  /\ selectedMediaIds' = a.selectedMediaIds
  /\ deletingSelected' = a.deletingSelected
  /\ hiddenMediaIds' = a.hiddenMediaIds
  /\ mediaThumbCache' = a.mediaThumbCache
  /\ lastSeenMediaIdRef' = a.lastSeenMediaIdRef
  /\ newClipCount' = a.newClipCount
  /\ notified' = a.notified
  /\ seenClips' = a.seenClips
  /\ playingItems' = a.playingItems
  /\ theaterMode' = a.theaterMode
  /\ event' = ev
  /\ UNCHANGED <<activeTab, recording, clock, envVars>>
  /\ Commit

Suspend(a, f) == [a EXCEPT !.flows = @ (+) SetToBag({f})]

Resume(a, f) == [a EXCEPT !.flows = @ (-) SetToBag({f})]

Suspended == BagToSet(flows)

KindCount(k) ==
  BagCardinality([f \in {g \in BagToSet(flows) : g.kind = k} |-> flows[f]])

\* handleLogout up to `await invoke("logout")`
handleLogout(a) ==
  Suspend([a EXCEPT !.sessionTokenRef = @ + 1,
                    !.fetchQueuedRef = FALSE,
                    !.fetchInFlightRef = FALSE,
                    !.loadingMoreClips = FALSE,
                    !.mediaPage = 1,
                    !.mediaHasMore = TRUE],
          Flow("logout", "logout", "", 0, "none"))

\* handleLogout after the logout command answered
LogoutDone(a) ==
  [setMedia(a, <<>>) EXCEPT !.cameras = <<>>, !.networks = <<>>,
            !.serverPort = 0, !.mediaThumbCache = {},
            !.selectedMediaIds = {}, !.selectMode = FALSE,
            !.step = "login", !.theaterMode = FALSE, !.playingItems = <<>>]

\* fetchData up to `await invoke("get_raw_homescreen")`; `hidden` is the
\* hiddenMediaIds of the render whose fetchData is called
fetchData(a, caller, hidden) ==
  IF a.fetchInFlightRef
  THEN [a EXCEPT !.fetchQueuedRef = TRUE]
  ELSE Suspend([a EXCEPT !.fetchInFlightRef = TRUE, !.loading = TRUE],
               [Flow("fetch", "get_raw_homescreen", "", a.sessionTokenRef, caller)
                  EXCEPT !.hidden = hidden])

\* what follows `await fetchData()` in init, handleLogin and handleVerifyPin
EnterDashboard(a, kind) ==
  IF kind = "init"
  THEN [a EXCEPT !.step = "dashboard"]
  ELSE [a EXCEPT !.step = "dashboard", !.loading = FALSE]

\* setServerPort(port); await fetchData(); setStep("dashboard")
AwaitFetch(a, port, kind, got, hidden) ==
  LET a1 == [a EXCEPT !.serverPort = port]
  IN IF a1.fetchInFlightRef
     THEN EnterDashboard(fetchData(a1, kind, hidden), kind)
     ELSE Suspend(fetchData(a1, kind, hidden), Flow(kind, "fetchData", got, 0, "none"))

\* comparator of the clip sort: TRUE when a sorts before b (created_at 0 = unparsable)
Newer(a, b) ==
  IF a.created_at > 0 /\ b.created_at > 0 /\ a.created_at # b.created_at
  THEN a.created_at > b.created_at
  ELSE IF a.created_at > 0 /\ b.created_at = 0 THEN TRUE
  ELSE IF a.created_at = 0 /\ b.created_at > 0 THEN FALSE
  ELSE a.id > b.id

RECURSIVE SortMedia(_)
SortMedia(S) ==
  IF S = {} THEN <<>>
  ELSE LET x == CHOOSE x \in S : \A y \in S \ {x} : Newer(x, y)
       IN << x >> \o SortMedia(S \ {x})

\* a merge in which the entry already in the list wins over the page's
MergeMedia_keepOld(prev, page) ==
  LET ids == {prev[k].id : k \in 1..Len(prev)}
  IN SortMedia({prev[k] : k \in 1..Len(prev)}
               \cup {page[k] : k \in {j \in 1..Len(page) : page[j].id \notin ids}})

\* setMedia(prev => ...) of fetchData: the page wins over prev, newest first
MergeMedia(prev, page) ==
  LET ids == {page[k].id : k \in 1..Len(page)}
  IN SortMedia({page[k] : k \in 1..Len(page)}
               \cup {prev[k] : k \in {j \in 1..Len(prev) : prev[j].id \notin ids}})

\* page `n` of the account's clips, as fetchMediaPage(n) returns it
PageItems(n) == IF n \in 1..Len(account.pages) THEN account.pages[n] ELSE <<>>

\* the entries of the hidden map younger than the TTL at time `now`
PruneHidden(hidden, now) == {h \in hidden : ~(now - h[2] > hiddenMediaTtlMs)}

\* filter(item => !hidden.has(item.id))
NotHidden(list, hidden) ==
  SelectSeq(list, LAMBDA m : m.id \notin {h[1] : h \in hidden})

\* newOnes: the listed clips with an id above the last one seen, when the newest
\* listed clip is one of them
NewOnes(lastSeen, mediaItems) ==
  IF mediaItems # <<>> /\ lastSeen > 0 /\ mediaItems[1].id > lastSeen
  THEN SelectSeq(mediaItems, LAMBDA m : m.id > lastSeen)
  ELSE <<>>

\* a refresh listed `rawMediaItems`
Listed(a, rawMediaItems) ==
  LET ids == {rawMediaItems[k].id : k \in 1..Len(rawMediaItems)}
  IN [a EXCEPT !.seenClips = IF @ = <<>> THEN << ids >> ELSE << @[1] \cup ids >>]

\* fetchData from `lastSeenMediaIdRef.current = latestId` to the end of its try block
FetchTail(a, rawMediaItems, prunedHidden) ==
  LET mediaItems == NotHidden(rawMediaItems, prunedHidden)
      a1 == IF mediaItems # <<>>
            THEN [a EXCEPT !.lastSeenMediaIdRef = mediaItems[1].id]
            ELSE a
  IN setMedia(a1, NotHidden(MergeMedia(a1.media, rawMediaItems), prunedHidden))

\* the finally block of deleteSelectedMedia
DeleteFinally(a) == [a EXCEPT !.deletingSelected = FALSE]

\* what the handler awaiting fetchData() does next
AfterFetch(a, kind) ==
  IF kind = "delete" THEN DeleteFinally(a) ELSE EnterDashboard(a, kind)

\* the finally block of fetchData, then the handler awaiting it goes on
FetchFinally(a, f) ==
  LET a1 == [Resume(a, f) EXCEPT !.loading = FALSE, !.fetchInFlightRef = FALSE]
      a2 == IF a1.fetchQueuedRef
            THEN fetchData([a1 EXCEPT !.fetchQueuedRef = FALSE], "none", f.hidden)
            ELSE a1
      waiting == {g \in BagToSet(a2.flows) : g.kind = f.caller /\ g.pc = "fetchData"}
  IN IF f.caller = "none" \/ waiting = {}
     THEN a2
     ELSE AfterFetch(Resume(a2, CHOOSE g \in waiting : TRUE), f.caller)

FetchEvent(a, f) ==
  LET waiting == {g \in BagToSet(a.flows) : g.kind = f.caller /\ g.pc = "fetchData"}
  IN IF f.caller = "none" \/ waiting = {}
     THEN << "fetch", "done", "" >>
     ELSE << f.caller, IF f.caller = "delete" THEN "done" ELSE "dashboard",
             (CHOOSE g \in waiting : TRUE).got >>

\* fetchData caught the rejection `r` of a gateway command
FetchFailed(a, f, r) ==
  IF FetchEvent(a, f)[1] = "fetch" THEN << "fetch", "failed", r >> ELSE FetchEvent(a, f)

\* ---- startup: the init effect and resolveResource
InitFlow == Flow("init", "check_auth", "", 0, "none")

\* the handler `kind` enters getServerPortWithRetry: attempt = 0, delayMs = 150,
\* first `await invoke("get_server_port")`; `waited` lists the timers it slept
PortFlow(kind, got) ==
  [Flow(kind, "get_server_port", got, 0, "none") EXCEPT !.delayMs = 150]

\* resolveResource resolved: fetchData gets a new identity and the init effect runs again
iconResolved ==
  /\ ~notificationIconPath
  /\ BagCardinality(flows) < MaxFlows
  /\ notificationIconPath' = TRUE
  /\ flows' = flows (+) SetToBag({InitFlow})
  /\ event' = << "init", "start", "" >>
  /\ UNCHANGED <<step, loading, error, serverPort, sessionTokenRef, fetchInFlightRef,
                 fetchQueuedRef, dataVars, activeTab, playingItems, theaterMode,
                 recording, clock, players, account, proxyReqs, fetched, lastAnswer,
                 cards>>

\* `authed = await invoke("check_auth")`
checkAuthReturns(r) ==
  /\ InitFlow \in Suspended
  /\ IF r = "true"
     THEN Assign(Suspend(Resume(Cur, InitFlow),
                         PortFlow("init", r)),
                 << "init", "ok", r >>)
     ELSE Assign(Resume(Cur, InitFlow), << "init", "failed", r >>)

\* a catch that submits the form's command once more
Caught_resubmit(a, kind, msg) ==
  IF kind = "init" THEN a
  ELSE Suspend(a, Flow(kind, IF kind = "pin" THEN "verify_pin" ELSE "login", "", 0, "none"))

\* the catch around the handler body: init logs, the forms show the message
Caught(a, kind, msg) ==
  IF kind = "init" THEN a ELSE [a EXCEPT !.error = msg, !.loading = FALSE]

\* rejected attempts of one call of getServerPortWithRetry: none, all but the
\* last, all
PortFailures == {0, maxAttempts - 1, maxAttempts}

\* a getServerPortWithRetry that cannot fail
portWithRetry_always(fails) == << Port >>

\* getServerPortWithRetry settles: after `fails` rejected attempts it returns the
\* port, or throws once every attempt was rejected
portWithRetry(fails) == IF fails < maxAttempts THEN << Port >> ELSE <<>>

getServerPortReturns(f, fails) ==
  /\ f \in Suspended
  /\ f.pc = "get_server_port"
  /\ IF portWithRetry(fails) # <<>>
     THEN Assign(AwaitFetch(Resume(Cur, f), portWithRetry(fails)[1], f.kind, f.got,
                            f.hidden),
                 IF fetchInFlightRef THEN << f.kind, "dashboard", f.got >>
                 ELSE << f.kind, "port", f.got >>)
     ELSE Assign(Caught(Resume(Cur, f), f.kind, "Server not ready"),
                 << f.kind, "failed", f.got >>)

\* ---- sign-in
LoginFlow == Flow("login", "login", "", 0, "none")

handleLogin ==
  /\ step = "login"
  /\ ~loading
  /\ KindCount("login") < MaxSubmits
  /\ BagCardinality(flows) < MaxFlows
  /\ Assign(Suspend([Cur EXCEPT !.loading = TRUE, !.error = ""], LoginFlow),
            << "login", "start", "" >>)

needsPin_never(result) == FALSE

needsPin(result) == result = "2FA_REQUIRED"

\* the login command answered; "throw" = it rejected
loginReturns(r) ==
  /\ LoginFlow \in Suspended
  /\ IF r = "throw"
     THEN Assign(Caught(Resume(Cur, LoginFlow), "login", "Invalid credentials"),
                 << "login", "failed", r >>)
     ELSE IF needsPin(r)
     THEN Assign([Resume(Cur, LoginFlow) EXCEPT !.step = "pin", !.loading = FALSE],
                 << "login", "pin", r >>)
     ELSE Assign(Suspend(Resume(Cur, LoginFlow),
                         PortFlow("login", r)),
                 << "login", "ok", r >>)

\* ---- PIN
PinFlow == Flow("pin", "verify_pin", "", 0, "none")

handleVerifyPin ==
  /\ step = "pin"
  /\ ~loading
  /\ KindCount("pin") < MaxSubmits
  /\ BagCardinality(flows) < MaxFlows
  /\ Assign(Suspend([Cur EXCEPT !.loading = TRUE, !.error = ""], PinFlow),
            << "pin", "start", "" >>)

PinRejected_toLogin(a, msg) == [Caught(a, "pin", msg) EXCEPT !.step = "login"]

PinRejected(a, msg) == Caught(a, "pin", msg)

verifyPinReturns(ok) ==
  /\ PinFlow \in Suspended
  /\ IF ok
     THEN Assign(Suspend(Resume(Cur, PinFlow),
                         PortFlow("pin", "OK")),
                 << "pin", "ok", "OK" >>)
     ELSE Assign(PinRejected(Resume(Cur, PinFlow), "Invalid PIN"),
                 << "pin", "failed", "throw" >>)

\* ---- sign-out
LogoutFlow == Flow("logout", "logout", "", 0, "none")

\* the Sidebar's sign-out button
LogoutClick ==
  /\ step = "dashboard"
  /\ sessionTokenRef < MaxSessions
  /\ BagCardinality(flows) < MaxFlows
  /\ Assign(handleLogout(Cur), << "logout", "start", "" >>)

logoutReturns(ok) ==
  /\ LogoutFlow \in Suspended
  /\ IF ok
     THEN Assign(LogoutDone(Resume(Cur, LogoutFlow)), << "logout", "done", "" >>)
     ELSE Assign(Resume(Cur, LogoutFlow), << "logout", "failed", "" >>)

\* ---- refresh
\* the interval, the 'r' key and the refresh button all call fetchData()
Refresh ==
  /\ step = "dashboard"
  /\ BagCardinality(flows) < MaxFlows
  /\ Assign(fetchData(Cur, "none", hiddenMediaIds), << "fetch", "start", "" >>)

authExpired(r) == r = "AUTH_EXPIRED"

SessionExpired == "Session expired. Please sign in again."

\* the catch block of fetchData
FetchCatch(a, r) ==
  IF authExpired(r)
  THEN [handleLogout(a) EXCEPT !.error = SessionExpired]
  ELSE a

homescreenReturns(f, r) ==
  /\ f \in Suspended
  /\ f.kind = "fetch" /\ f.pc = "get_raw_homescreen"
  /\ authExpired(r) => sessionTokenRef < MaxSessions
  /\ IF r # "ok"
     THEN Assign(FetchFinally(FetchCatch(Cur, r), f), FetchFailed(Cur, f, r))
     ELSE IF sessionTokenRef # f.token
     THEN Assign(FetchFinally(Cur, f), FetchEvent(Cur, f))
     ELSE Assign(Suspend([Resume(Cur, f) EXCEPT !.networks = account.nets,
                                                !.cameras = account.cams],
                         [f EXCEPT !.pc = "get_raw_media_page"]),
                 << "fetch", "homescreen", "" >>)

mediaPageReturns(f, r) ==
  /\ f \in Suspended
  /\ f.kind = "fetch" /\ f.pc = "get_raw_media_page"
  /\ authExpired(r) => sessionTokenRef < MaxSessions
  /\ IF r # "ok"
     THEN Assign(FetchFinally(FetchCatch(Cur, r), f), FetchFailed(Cur, f, r))
     ELSE IF sessionTokenRef # f.token
     THEN Assign(FetchFinally(Cur, f), FetchEvent(Cur, f))
     ELSE LET page1Items == PageItems(1)
              prunedHidden == PruneHidden(f.hidden, clock)
              a1 == IF prunedHidden # f.hidden
                    THEN [Cur EXCEPT !.hiddenMediaIds = prunedHidden]
                    ELSE Cur
              a2 == Listed([a1 EXCEPT !.mediaHasMore = Len(page1Items) > 0], page1Items)
              n == Len(NewOnes(lastSeenMediaIdRef, NotHidden(page1Items, prunedHidden)))
          IN IF n > 0
             THEN /\ newClipCount + n <= MaxNewClips
                  /\ notified + n <= MaxNewClips
                  /\ Assign(Suspend([Resume(a2, f) EXCEPT !.newClipCount = @ + n],
                                    [f EXCEPT !.pc = "isPermissionGranted",
                                              !.items = page1Items,
                                              !.pruned = prunedHidden,
                                              !.fresh = n]),
                            << "fetch", "new", "" >>)
             ELSE Assign(FetchFinally(FetchTail(a2, page1Items, prunedHidden), f),
                         FetchEvent(Cur, f))

\* `await isPermissionGranted()` settles; fetchData goes on without looking at
\* the session token
permissionReturns(f, r) ==
  /\ f \in Suspended
  /\ f.kind = "fetch" /\ f.pc = "isPermissionGranted"
  /\ IF r = "throw"
     THEN Assign(FetchFinally(FetchCatch(Cur, r), f), FetchFailed(Cur, f, r))
     ELSE LET a == IF r = "granted" THEN [Cur EXCEPT !.notified = @ + f.fresh] ELSE Cur
          IN Assign(FetchFinally(FetchTail(a, f.items, f.pruned), f), FetchEvent(Cur, f))


\* ---- thumbnails of the clips
\* `await invoke("get_thumbnail_base64", { path })` of fillMediaThumbCache settles
thumbnailReturns(f, r) ==
  /\ f \in Suspended
  /\ f.kind = "thumb"
  /\ LET rest == Tail(f.todo)
         next == IF rest = <<>> THEN Resume(Cur, f)
                 ELSE Suspend(Resume(Cur, f), [f EXCEPT !.todo = rest])
     IN IF r # "ok"
        THEN Assign(next, << "thumb", "failed", r >>)
        ELSE IF f.cancelled
        THEN Assign(Resume(Cur, f), << "thumb", "cancelled", r >>)
        ELSE Assign([next EXCEPT !.mediaThumbCache = @ \cup {Head(f.todo)}],
                    << "thumb", "ok", r >>)

\* ---- older clips
\* the "Load more" button of the timeline
handleLoadMoreClips ==
  /\ step = "dashboard"
  /\ activeTab = "clips"
  /\ ~loadingMoreClips
  /\ mediaHasMore
  /\ BagCardinality(flows) < MaxClipFlows
  /\ Assign(Suspend([Cur EXCEPT !.loadingMoreClips = TRUE],
                    [Flow("more", "get_raw_media_page", "", sessionTokenRef, "none")
                       EXCEPT !.page = mediaPage + 1, !.hidden = hiddenMediaIds]),
            << "more", "start", "" >>)

\* `await fetchMediaPage(nextPage)` settles; there is no catch, only the finally
loadMoreReturns(f, r) ==
  /\ f \in Suspended
  /\ f.kind = "more"
  /\ LET a == [Resume(Cur, f) EXCEPT !.loadingMoreClips = FALSE]
         nextItems == PageItems(f.page)
     IN IF r # "ok"
        THEN Assign(a, << "more", "failed", r >>)
        ELSE IF sessionTokenRef # f.token
        THEN Assign(a, << "more", "stale", r >>)
        ELSE IF nextItems = <<>>
        THEN Assign([a EXCEPT !.mediaHasMore = FALSE], << "more", "end", r >>)
        ELSE Assign(setMedia([a EXCEPT !.mediaPage = f.page],
                             NotHidden(MergeMedia(a.media, nextItems), f.hidden)),
                    << "more", "ok", r >>)

\* ---- arming
\* the arm button of a network, or the space key
toggleArm ==
  /\ step = "dashboard"
  /\ networks # <<>>
  /\ BagCardinality(flows) < MaxClipFlows
  /\ Assign(Suspend(Cur, [Flow("arm", "set_network_arm", "", 0, "none")
                            EXCEPT !.hidden = hiddenMediaIds]),
            << "arm", "start", "" >>)

\* `await invoke("set_network_arm")` settles: fetchData() is started, a failure is logged
armReturns(f, r) ==
  /\ f \in Suspended
  /\ f.kind = "arm"
  /\ IF r = "ok"
     THEN Assign(fetchData(Resume(Cur, f), "none", f.hidden), << "arm", "ok", r >>)
     ELSE Assign(Resume(Cur, f), << "arm", "failed", r >>)

\* ---- selecting and deleting clips
MediaIds(list) == {list[k].id : k \in 1..Len(list)}

toggleSelectMode ==
  /\ step = "dashboard"
  /\ activeTab = "clips"
  /\ Assign([Cur EXCEPT !.selectMode = ~selectMode,
                        !.selectedMediaIds = IF selectMode THEN {} ELSE @],
            << "ui", "", "" >>)

\* a click on a clip card in select mode
toggleSelectMedia(id) ==
  /\ step = "dashboard"
  /\ activeTab = "clips"
  /\ selectMode
  /\ id \in MediaIds(media)
  /\ Assign([Cur EXCEPT !.selectedMediaIds = IF id \in @ THEN @ \ {id} ELSE @ \cup {id}],
            << "ui", "", "" >>)

selectAllMedia ==
  /\ step = "dashboard"
  /\ activeTab = "clips"
  /\ selectMode
  /\ Assign([Cur EXCEPT !.selectedMediaIds = MediaIds(media)], << "ui", "", "" >>)

clearSelectedMedia ==
  /\ step = "dashboard"
  /\ activeTab = "clips"
  /\ selectMode
  /\ Assign([Cur EXCEPT !.selectedMediaIds = {}], << "ui", "", "" >>)

\* deleteSelectedMedia up to `await invoke("delete_media_items")`
deleteSelectedMedia ==
  /\ step = "dashboard"
  /\ activeTab = "clips"
  /\ selectMode
  /\ ~deletingSelected
  /\ selectedMediaIds # {}
  /\ BagCardinality(flows) < MaxClipFlows
  /\ Assign(Suspend([Cur EXCEPT !.deletingSelected = TRUE],
                    [Flow("delete", "delete_media_items", "", 0, "none")
                       EXCEPT !.sel = selectedMediaIds, !.hidden = hiddenMediaIds]),
            << "delete", "start", "" >>)

\* what follows the answer `remaining` of delete_media_items, up to `await fetchData()`
Deleted(a, f, remaining) ==
  LET deletedIds == f.sel \ remaining
      a1 == IF deletedIds # {}
            THEN setMedia([a EXCEPT !.hiddenMediaIds =
                                      {h \in @ : h[1] \notin deletedIds}
                                      \cup {<< id, clock >> : id \in deletedIds}],
                          SelectSeq(a.media, LAMBDA m : m.id \notin deletedIds))
            ELSE a
  IN [a1 EXCEPT !.selectedMediaIds = remaining, !.selectMode = remaining # {}]

\* delete_media_items settles: it answers the ids it could not delete, or rejects
deleteReturns(f, r, remaining) ==
  /\ f \in Suspended
  /\ f.kind = "delete" /\ f.pc = "delete_media_items"
  /\ remaining \subseteq f.sel
  /\ IF r # "ok"
     THEN Assign(DeleteFinally(Resume(Cur, f)), << "delete", "failed", r >>)
     ELSE LET a == Deleted(Resume(Cur, f), f, remaining)
          IN IF a.fetchInFlightRef
             THEN Assign(DeleteFinally(fetchData(a, "delete", f.hidden)),
                         << "delete", "done", "ok" >>)
             ELSE Assign(Suspend(fetchData(a, "delete", f.hidden),
                                 [f EXCEPT !.pc = "fetchData"]),
                         << "delete", "deleted", "ok" >>)

\* ---- downloading a clip from its card
CardStep(id, card, ev) ==
  /\ cards' = [cards EXCEPT ![id] = card]
  /\ event' = ev
  /\ UNCHANGED <<sessVars, dataVars, activeTab, playingItems, theaterMode, recording,
                 clock, players, account, notificationIconPath, proxyReqs, fetched,
                 lastAnswer>>

\* the card of clip `id` is on screen
CardShown(id) ==
  /\ step = "dashboard"
  /\ activeTab = "clips"
  /\ id \in MediaIds(media)
  /\ id \in CardIds

\* the download button of a card (disabled while downloading)
handleDownload(m) ==
  /\ m \in 1..Len(media)
  /\ CardShown(media[m].id)
  /\ ~cards[media[m].id].downloading
  /\ CardStep(media[m].id, StartDownload(cards[media[m].id], media[m].media_url),
              << "download", IF media[m].media_url = <<>> THEN "missing" ELSE "start", "" >>)

\* desktop: the save dialog closes with a path, without one, or fails
saveReturns(id, r) ==
  /\ CardShown(id)
  /\ cards[id].pc = "save"
  /\ CardStep(id,
              IF r = "path"
              THEN [cards[id] EXCEPT !.pc = "invoke", !.requests = @ + 1]
              ELSE IF r = "none" THEN DownloadReturned(cards[id], FALSE)
              ELSE DownloadFailed(cards[id], "dialog"),
              << "download", IF r = "path" THEN "request"
                             ELSE IF r = "none" THEN "cancelled" ELSE "failed", r >>)

\* desktop: a download-progress event of this download reaches the listener
progressEvent(id, received, total) ==
  /\ CardShown(id)
  /\ cards[id].pc = "invoke"
  /\ CardStep(id, [cards[id] EXCEPT !.downloadProgress =
                      IF total > 0 THEN Percent(received, total) ELSE 0],
              << "download", "progress", "" >>)

\* desktop: download_clip_with_progress settles
invokeReturns(id, ok) ==
  /\ CardShown(id)
  /\ cards[id].pc = "invoke"
  /\ CardStep(id, IF ok THEN DownloadReturned(cards[id], TRUE)
                  ELSE DownloadFailed(cards[id], "download"),
              << "download", IF ok THEN "done" ELSE "failed", "" >>)

\* hosted: fetch() settles; r = "ok" with the announced size and a readable
\* body or not, "status" = !res.ok, "throw" = fetch rejected
responseArrives(id, r, total, streamed) ==
  /\ CardShown(id)
  /\ cards[id].pc = "fetch"
  /\ r # "ok" => total = 0 /\ streamed
  /\ CardStep(id,
              IF r = "ok"
              THEN [cards[id] EXCEPT !.total = total,
                                     !.pc = IF streamed THEN "read" ELSE "blob"]
              ELSE DownloadFailed(cards[id], r),
              << "download", IF r = "ok" THEN "response" ELSE "failed", r >>)

\* hosted: reader.read() returns a chunk of n bytes
chunkArrives(id, n) ==
  /\ CardShown(id)
  /\ cards[id].pc = "read"
  /\ cards[id].received + n <= MaxBytes
  /\ CardStep(id,
              [cards[id] EXCEPT !.received = @ + n,
                                !.downloadProgress =
                                   IF cards[id].total > 0
                                   THEN Percent(cards[id].received + n, cards[id].total)
                                   ELSE @],
              << "download", "progress", "" >>)

\* hosted: the body ended (done, or res.blob() resolved): onProgress(100), return true
streamEnds(id) ==
  /\ CardShown(id)
  /\ cards[id].pc \in {"read", "blob"}
  /\ CardStep(id, DownloadReturned([cards[id] EXCEPT !.downloadProgress = 100], TRUE),
              << "download", "done", "" >>)

\* hosted: reading the body failed
streamFails(id) ==
  /\ CardShown(id)
  /\ cards[id].pc \in {"read", "blob"}
  /\ CardStep(id, DownloadFailed(cards[id], "read"), << "download", "failed", "throw" >>)

\* ---- the local server's allowlist guard
AllowExact == { << "blinkforhome", "com" >> }

AllowSuffix == { << "immedia-semi", "com" >> }

SuffixMatch(host, suffix) ==
  /\ Len(host) > Len(suffix)
  /\ SubSeq(host, Len(host) - Len(suffix) + 1, Len(host)) = suffix

HostAllowed(host) ==
  \/ host \in AllowExact
  \/ \E suffix \in AllowSuffix : SuffixMatch(host, suffix)

\* validate(url) -> Ok | Rejected
validate(u) ==
  /\ u.scheme \in {"http", "https"}
  /\ ~u.creds
  /\ HostAllowed(u.host)

\* ---- what the webview requests
\* an element or fetch() asks for `url`: a URL of the local server becomes a
\* request to that endpoint, anything else is fetched by the webview itself
Load(url, reqs, got) ==
  IF url[1] \in {"proxy", "thumbnail"}
  THEN [reqs |-> reqs \cup {[endpoint |-> url[1], target |-> url[3], url |-> url[3], hops |-> 0]},
        got |-> got]
  ELSE [reqs |-> reqs, got |-> got \cup {[by |-> "webview", url |-> url[3]]}]

ThumbUrl(port, path) == << "thumbnail", port, path >>

\* <video src={playUrl}> of the clip in playingItems
videoLoads ==
  /\ step = "dashboard"
  /\ playingItem(playingItems) # <<>>
  /\ playingItem(playingItems)[1].type = "media"
  /\ Cardinality(proxyReqs) < MaxRequests
  /\ LET l == Load(playingItem(playingItems)[1].url, proxyReqs, fetched)
     IN proxyReqs' = l.reqs /\ fetched' = l.got
  /\ UNCHANGED <<clientVars, players, lastAnswer>>

\* <img src={thumbSrc}> of a clip card
thumbLoads(m) ==
  /\ step = "dashboard"
  /\ activeTab = "clips"
  /\ m \in 1..Len(media)
  /\ serverPort # 0
  /\ media[m].thumbnail_url # <<>>
  /\ Cardinality(proxyReqs) < MaxRequests
  /\ LET l == Load(ThumbUrl(serverPort, media[m].thumbnail_url[1]), proxyReqs, fetched)
     IN proxyReqs' = l.reqs /\ fetched' = l.got
  /\ UNCHANGED <<clientVars, players, lastAnswer>>

\* apiClient.downloadClip: fetch(`${apiBase}/proxy?url=...`)
downloadClip(m) ==
  /\ step = "dashboard"
  /\ activeTab = "clips"
  /\ m \in 1..Len(media)
  /\ serverPort # 0
  /\ media[m].media_url # <<>>
  /\ Cardinality(proxyReqs) < MaxRequests
  /\ LET l == Load(ProxyUrl(serverPort, media[m].media_url[1]), proxyReqs, fetched)
     IN proxyReqs' = l.reqs /\ fetched' = l.got
  /\ UNCHANGED <<clientVars, players, lastAnswer>>

\* ---- the local server serves one hop of a request: the guard, then the
\* upstream GET, whose answer may redirect anywhere
Answer(r, outcome) == << [endpoint |-> r.endpoint, target |-> r.target, url |-> r.url,
                          outcome |-> outcome] >>

proxyServe(r, upstream) ==
  /\ r \in proxyReqs
  /\ IF ~validate(r.url)
     THEN /\ proxyReqs' = proxyReqs \ {r}
          /\ lastAnswer' = Answer(r, "Rejected")
          /\ UNCHANGED fetched
     ELSE /\ fetched' = fetched \cup {[by |-> "proxy", url |-> r.url]}
          /\ IF upstream = << "ok" >> \/ r.hops = MaxRedirects
             THEN /\ proxyReqs' = proxyReqs \ {r}
                  /\ lastAnswer' = Answer(r, IF upstream = << "ok" >> THEN "Ok"
                                             ELSE "UpstreamError")
             ELSE /\ proxyReqs' = (proxyReqs \ {r})
                                    \cup {[r EXCEPT !.url = upstream[2], !.hops = @ + 1]}
                  /\ UNCHANGED lastAnswer
  /\ UNCHANGED <<clientVars, players>>

UpstreamAnswers == {<< "ok" >>} \cup {<< "redirect", u >> : u \in Targets}

\* ---- the dashboard after a successful sign-in and refresh, nothing playing
\* the webview on the dashboard showing `tab`, its last refresh having listed
\* `clips`, with the clips `sel` selected
Client(cams, nets, clips, tab, sel) ==
  /\ step = "dashboard"
  /\ loading = FALSE
  /\ error = ""
  /\ serverPort = 1
  /\ sessionTokenRef = 0
  /\ fetchInFlightRef = FALSE
  /\ fetchQueuedRef = FALSE
  /\ flows = EmptyBag
  /\ event = << "ui", "", "" >>
  /\ cameras = cams
  /\ networks = nets
  /\ media = clips
  /\ mediaPage = 1
  /\ mediaHasMore = TRUE
  /\ loadingMoreClips = FALSE
  /\ selectMode = (sel # {})
  /\ selectedMediaIds = sel
  /\ deletingSelected = FALSE
  /\ hiddenMediaIds = {}
  /\ activeTab = tab
  /\ playingItems = <<>>
  /\ theaterMode = FALSE
  /\ recording = FALSE
  /\ clock = 1
  /\ players = [s \in Slots |-> NoPlayer]
  /\ mediaThumbCache = {clips[k].thumbnail_url[1] :
                          k \in {j \in 1..Len(clips) : clips[j].thumbnail_url # <<>>}}
  /\ lastSeenMediaIdRef = (IF clips = <<>> THEN 0 ELSE clips[1].id)
  /\ newClipCount = 0
  /\ notified = 0
  /\ seenClips = (IF clips = <<>> THEN <<>> ELSE << {clips[k].id : k \in 1..Len(clips)} >>)
  /\ notificationIconPath = TRUE
  /\ proxyReqs = {}
  /\ fetched = {}
  /\ lastAnswer = <<>>

\* a signed-in client whose account lists `clips` on its first page
Signed(cams, nets, clips, tab, sel) ==
  /\ Client(cams, nets, clips, tab, sel)
  /\ account = [cams |-> cams, nets |-> nets, pages |-> << clips, OlderItems >>]

\* a signed-in client on the cameras tab of the desktop app
Dashboard(cams, nets, clips) ==
  /\ Signed(cams, nets, clips, "cameras", {})
  /\ cards = [id \in CardIds |-> NoCard(TRUE)]

\* an account with the whole inventory
InitLive == Dashboard(Inventory, InventoryNetworks, MediaItems)

\* an account with a single camera
InitPlayer == Dashboard(SubSeq(Inventory, 1, 1), SubSeq(InventoryNetworks, 1, 1), MediaItems)

LiveOps ==
  \/ \E i \in 1..NSlots : handleLiveView(i)
  \/ \E i \in 1..NSlots : onTheaterMode(i)
  \/ \E i \in 1..NSlots : handleStop(i)
  \/ handleStopAll
  \/ escapeTheater
  \/ handleToggleRecording
  \/ \E m \in 1..Len(MediaItems) : handlePlayMedia(m)
  \/ \E tab \in {"cameras", "clips"} : handleTabChange(tab)
  \/ Tick

\* stream start and readiness timer of every mounted player
StartOps ==
  \/ \E s \in Slots : PlayerStatistics(s)
  \/ \E s \in Slots : PlayerPlaying(s)
  \/ \E s \in Slots : PlayerTimeout(s)

\* stream errors, backoff timers and the retry button
RetryOps ==
  \/ \E s \in Slots, ev \in ErrorEvents : PlayerError(s, ev)
  \/ \E s \in Slots, i \in 1..MaxPending : PlayerRetryTimer(s, i)
  \/ \E s \in Slots : PlayerOrphanTimer(s)
  \/ \E s \in Slots : PlayerRetryButton(s)

\* the camera grid with several live views
NextLive == LiveOps \/ StartOps

SpecLive == InitLive /\ [][NextLive]_vars

\* one camera, all the events of its player
NextPlayer == LiveOps \/ StartOps \/ RetryOps

SpecPlayer == InitPlayer /\ [][NextPlayer]_vars

\* ===================================================================== claims
\* ---- the program from its start: nothing signed in, init() awaiting check_auth
Init ==
  /\ step = "login"
  /\ loading = FALSE
  /\ error = ""
  /\ serverPort = 0
  /\ sessionTokenRef = 0
  /\ fetchInFlightRef = FALSE
  /\ fetchQueuedRef = FALSE
  /\ flows = SetToBag({InitFlow})
  /\ event = << "init", "start", "" >>
  /\ notificationIconPath = FALSE
  /\ proxyReqs = {}
  /\ fetched = {}
  /\ lastAnswer = <<>>
  /\ cameras = <<>>
  /\ networks = <<>>
  /\ media = <<>>
  /\ mediaPage = 1
  /\ mediaHasMore = TRUE
  /\ loadingMoreClips = FALSE
  /\ selectMode = FALSE
  /\ selectedMediaIds = {}
  /\ deletingSelected = FALSE
  /\ hiddenMediaIds = {}
  /\ activeTab = "cameras"
  /\ playingItems = <<>>
  /\ theaterMode = FALSE
  /\ recording = FALSE
  /\ clock = 1
  /\ players = [s \in Slots |-> NoPlayer]
  /\ account = [cams |-> SubSeq(Inventory, 1, 1), nets |-> SubSeq(InventoryNetworks, 1, 1),
                pages |-> << SubSeq(MediaItems, 1, 1) >>]
  /\ mediaThumbCache = {}
  /\ lastSeenMediaIdRef = 0
  /\ newClipCount = 0
  /\ notified = 0
  /\ seenClips = <<>>
  /\ cards = [id \in CardIds |-> NoCard(TRUE)]

Replies == {"ok", "AUTH_EXPIRED", "error"}

\* isPermissionGranted resolves true or false, or rejects
PermissionAnswers == {"granted", "denied", "throw"}

StartupOps ==
  \/ iconResolved
  \/ \E r \in {"true", "false", "throw"} : checkAuthReturns(r)
  \/ \E f \in Suspended, fails \in PortFailures : getServerPortReturns(f, fails)

SignInOps ==
  \/ handleLogin
  \/ \E r \in {"OK", "2FA_REQUIRED", "throw"} : loginReturns(r)
  \/ handleVerifyPin
  \/ \E ok \in BOOLEAN : verifyPinReturns(ok)

SessionOps ==
  \/ LogoutClick
  \/ \E ok \in BOOLEAN : logoutReturns(ok)
  \/ Refresh
  \/ \E f \in Suspended, r \in Replies : homescreenReturns(f, r)
  \/ \E f \in Suspended, r \in Replies : mediaPageReturns(f, r)

WatchOps ==
  \/ \E i \in 1..Len(cameras) : handleLiveView(i)
  \/ \E i \in 1..Len(cameras) : onTheaterMode(i)
  \/ handleStopAll

Next == StartupOps \/ SignInOps \/ SessionOps \/ WatchOps

Spec == Init /\ [][Next]_vars


\* ---- browsing clips of a listing that points anywhere
InitProxy == Dashboard(SubSeq(Inventory, 1, 1), SubSeq(InventoryNetworks, 1, 1), AnyMedia)

ClipOps ==
  \/ \E tab \in {"cameras", "clips"} : handleTabChange(tab)
  \/ \E m \in 1..Len(media) : handlePlayMedia(m)
  \/ handleStopAll
  \/ videoLoads
  \/ \E m \in 1..Len(media) : thumbLoads(m)
  \/ \E m \in 1..Len(media) : downloadClip(m)

ServerOps == \E r \in proxyReqs, upstream \in UpstreamAnswers : proxyServe(r, upstream)

NextProxy == ClipOps \/ ServerOps

SpecProxy == InitProxy /\ [][NextProxy]_vars

\* ---- C1
\* the camera id the theater overlay streams (0 = the overlay runs no player)
TheaterCamera ==
  IF players[TheaterSlot].player THEN playingItem(playingItems)[1].id ELSE 0

\* C1: playingItems holds at most one entry per camera id, and no camera card
\* runs an MpegtsPlayer for the camera that the theater overlay is streaming.
C1_OneConnectionPerCamera ==
  /\ \A j, k \in 1..Len(playingItems) :
       playingItems[j].id = playingItems[k].id => j = k
  /\ \A i \in 1..Len(cameras) :
       players[i].player => cameras[i].id # TheaterCamera

\* the theater overlay streams one camera, whose card is live but runs no player,
\* while the card of another camera runs its own player
C1_Witness ==
  /\ TheaterCamera # 0
  /\ \E i \in 1..Len(cameras) :
       /\ cameras[i].id = TheaterCamera
       /\ isLive(playingItems, cameras[i])
       /\ ~players[i].player
  /\ \E i \in 1..Len(cameras) : players[i].player

\* ---- C2
\* C2: in a streak of failing attempts (no stream start, no user retry, no new
\* url) the backoff timers reconnect the player at most 3 times.
C2_AtMostThreeAutoRetries ==
  \A s \in Slots : players[s].autoRetries <= MaxAutoRetries

\* ---- C3
\* the wait before the k-th automatic retry: base 2 s, doubling, capped at 8 s
ExpectedDelay(k) ==
  IF k = 1 THEN RetryBaseMs
  ELSE IF k = 2 THEN 2 * RetryBaseMs
  ELSE RetryCapMs

\* C3: the wait that preceded the k-th consecutive automatic retry is 2 s, 4 s,
\* 8 s for k = 1, 2, 3.
C3_BackoffDelays ==
  \A s \in Slots :
    players[s].autoRetries \in 1..MaxAutoRetries =>
      players[s].lastDelay = ExpectedDelay(players[s].autoRetries)

\* ---- C4
\* the 45 s timer of the attempt of slot s fires in this step
TimeoutFires(s) ==
  /\ players[s].timeout
  /\ ~players'[s].timeout
  /\ players'[s].mounted
  /\ players'[s].url = players[s].url
  /\ players'[s].retryToken = players[s].retryToken

\* C4: when the 45 s timer of an attempt fires and the stream has not started,
\* the player shows the timeout error and leaves the loading state; when the
\* stream has started the timer changes nothing; no other player is touched.
C4_TimeoutPerAttempt ==
  [][ \A s \in Slots :
        TimeoutFires(s) =>
          /\ IF players[s].startedRef
               THEN players'[s] = [players[s] EXCEPT !.timeout = FALSE]
               ELSE /\ players'[s].error = "timeout"
                    /\ ~players'[s].loading
          /\ \A t \in Slots \ {s} : players'[t] = players[t] ]_vars

\* one player timed out while another, mounted at the same time, had started
\* before its timer fired and shows no error
C4_Witness ==
  \E s, t \in Slots :
    /\ s # t
    /\ players[s].mounted /\ players[s].timedOut
    /\ players[s].error = "timeout" /\ ~players[s].loading
    /\ players[t].mounted /\ players[t].startedRef /\ ~players[t].timeout
    /\ players[t].error = "none"

\* ---- C5
\* C5: once the 45 s timer has fired for an attempt that had not started, the
\* attempt's player is destroyed and the attempt never becomes started.
C5_TimedOutAttemptTerminated ==
  \A s \in Slots :
    players[s].timedOut => ~players[s].player /\ ~players[s].startedRef

\* ---- C6
Quiet(p) ==
  /\ ~p.mounted
  /\ ~p.player
  /\ ~p.timeout
  /\ Len(p.timers) = 0
  /\ p.orphans = 0

\* handleStop removes the entry of the camera of card i in this step
StopsCamera(i) ==
  /\ i \in 1..Len(cameras)
  /\ isLive(playingItems, cameras[i])
  /\ \/ playingItems' = StopUpdate(playingItems, cameras[i].id)
     \/ playingItems' = <<>>

\* C6: after handleStop has removed a camera's entry, the players that showed
\* it (its card, the theater overlay) are destroyed and none of their 45 s or
\* backoff timers is left pending.
C6_NothingPendingAfterStop ==
  [][ \A i \in 1..NSlots :
        StopsCamera(i) /\ ~isLive(playingItems', cameras[i]) =>
          /\ Quiet(players'[i])
          /\ (Len(playingItems') = 0 => Quiet(players'[TheaterSlot])) ]_vars

\* ---- C7
LogoutFinished == event[1] = "logout" /\ event[2] \in {"done", "failed"}

\* C7: when handleLogout has finished, no live view is left (nothing in
\* playingItems, no player mounted, theater off), the cached inventory and
\* clips are cleared, and the client is in the "login" step.
C7_LogoutClearsEverything ==
  LogoutFinished =>
    /\ playingItems = <<>>
    /\ \A s \in Slots : ~players[s].mounted
    /\ ~theaterMode
    /\ cameras = <<>> /\ networks = <<>> /\ media = <<>>
    /\ step = "login"

C8_WitnessTarget ==
  /\ lastAnswer # <<>>
  /\ lastAnswer[1].outcome = "Rejected"
  /\ lastAnswer[1].target = OtherUrl
  /\ fetched = {}

C9_WitnessFailed ==
  event = << "login", "failed", "throw" >> /\ step = "login"
    /\ error = "Invalid credentials"

\* handleLogin, answered without a second factor, has entered the dashboard
C9_WitnessDashboard ==
  event = << "login", "dashboard", "OK" >> /\ step = "dashboard"

C10_WitnessDashboard ==
  event = << "pin", "dashboard", "OK" >> /\ step = "dashboard"


\* ---- the clips tab of a signed-in client
InitClips ==
  /\ Signed(SubSeq(Inventory, 1, 1), SubSeq(InventoryNetworks, 1, 1), MediaItems, "clips", {})
  /\ cards = [id \in CardIds |-> NoCard(TRUE)]

SelectOps ==
  \/ toggleSelectMode
  \/ \E id \in MediaIds(media) : toggleSelectMedia(id)
  \/ selectAllMedia
  \/ clearSelectedMedia

GatewayOps ==
  \/ Refresh
  \/ handleLoadMoreClips
  \/ toggleArm
  \/ deleteSelectedMedia

GatewayReplies ==
  \/ \E f \in Suspended, r \in Replies : homescreenReturns(f, r)
  \/ \E f \in Suspended, r \in Replies : mediaPageReturns(f, r)
  \/ \E f \in Suspended, r \in Replies : loadMoreReturns(f, r)
  \/ \E f \in Suspended, r \in Replies : armReturns(f, r)
  \/ \E f \in Suspended, r \in Replies : thumbnailReturns(f, r)
  \/ \E f \in Suspended, r \in Replies :
       \E remaining \in SUBSET f.sel : deleteReturns(f, r, remaining)
  \/ \E ok \in BOOLEAN : logoutReturns(ok)

ClipsReplies ==
  \/ \E f \in Suspended, r \in Replies : homescreenReturns(f, r)
  \/ \E f \in Suspended, r \in Replies : mediaPageReturns(f, r)
  \/ \E f \in Suspended, r \in Replies :
       \E remaining \in SUBSET f.sel : deleteReturns(f, r, remaining)
  \/ \E ok \in BOOLEAN : logoutReturns(ok)

NextClips ==
  \/ \E tab \in {"cameras", "clips"} : handleTabChange(tab)
  \/ SelectOps
  \/ Refresh
  \/ deleteSelectedMedia
  \/ ClipsReplies

SpecClips == InitClips /\ [][NextClips]_vars

\* ---- the calls of a signed-in client to the gateway, two clips selected
InitGateway ==
  /\ Signed(SubSeq(Inventory, 1, 1), SubSeq(InventoryNetworks, 1, 1), MediaItems, "clips",
            MediaIds(MediaItems))
  /\ cards = [id \in CardIds |-> NoCard(TRUE)]

NextGateway ==
  \/ GatewayOps
  \/ GatewayReplies

SpecGateway == InitGateway /\ [][NextGateway]_vars

\* ---- C11
\* a gateway call of the handler `kind` was answered AUTH_EXPIRED in this step
AuthExpiredAnswer(kind) == event'[1] = kind /\ event'[3] = "AUTH_EXPIRED"

\* handleLogout was started and the login screen will show 'Session expired'
ForcedLogout ==
  /\ sessionTokenRef' = sessionTokenRef + 1
  /\ LogoutFlow \in BagToSet(flows')
  /\ error' = SessionExpired

\* C11: whichever gateway call is answered with an expired session (the data
\* refresh, load-more, arm/disarm, delete, a thumbnail fetch), the client
\* starts handleLogout and sets the error 'Session expired. Please sign in again.'
C11_AuthExpiredForcesLogout ==
  [][ \A kind \in {"fetch", "more", "arm", "delete", "thumb"} :
        AuthExpiredAnswer(kind) => ForcedLogout ]_vars

\* the part of C11 that holds: the data refresh
C11_RefreshForcesLogout == [][ AuthExpiredAnswer("fetch") => ForcedLogout ]_vars

C11_WitnessRefresh ==
  /\ event = << "fetch", "failed", "AUTH_EXPIRED" >>
  /\ error = SessionExpired
  /\ LogoutFlow \in Suspended

\* ---- C12
\* this step shows the dashboard again
BackToDashboard == step = "login" /\ step' = "dashboard"

\* C12: once a logout has completed the client stays in "login" until the user
\* signs in again: the only handlers that take it from "login" to the dashboard
\* after a logout are handleLogin and handleVerifyPin, never the startup flow.
C12_StaysLoggedOut ==
  [][ BackToDashboard /\ sessionTokenRef > 0 => event'[1] \in {"login", "pin"} ]_vars

\* ---- two cameras streaming, each with its own errors and retries
InitStreams ==
  Dashboard(SubSeq(Inventory, 1, 2), SubSeq(InventoryNetworks, 1, 1), MediaItems)

\* ERROR events of mpegts.js: code 0 = info.code missing
StreamErrors ==
  { [detail |-> "HttpStatusCodeInvalid", code |-> 500],
    [detail |-> "HttpStatusCodeInvalid", code |-> 404],
    [detail |-> "HttpStatusCodeInvalid", code |-> 0],
    [detail |-> "Exception", code |-> 0] }

NextStreams ==
  \/ \E i \in 1..Len(cameras) : handleLiveView(i)
  \/ \E i \in 1..Len(cameras) : handleStop(i)
  \/ \E s \in Slots, ev \in StreamErrors : PlayerError(s, ev)
  \/ \E s \in Slots, i \in 1..MaxPending : PlayerRetryTimer(s, i)

SpecStreams == InitStreams /\ [][NextStreams]_vars

\* ---- C13
\* an error that is not an HTTP status of 500 or more
NonServerError(ev) == ev.detail # "HttpStatusCodeInvalid" \/ ev.code < 500

LiveOf(items, camera) ==
  \E k \in 1..Len(items) : items[k].type = "camera" /\ items[k].camera = << camera >>

\* the identity of a device: its network, its product kind and its id
SameDevice(c, d) ==
  c.network_id = d.network_id /\ c.product_type = d.product_type /\ c.id = d.id

\* C14: starting, restarting or stopping the live view of one device leaves the
\* live view of every other device open, also when the two share the numeric
\* id, as long as fewer than four views are open.
C14_DevicesIndependent ==
  [][ \A i, j \in 1..Len(cameras) :
        /\ ~SameDevice(cameras[i], cameras[j])
        /\ LiveOf(playingItems, cameras[j])
        /\ Len(playingItems) < MaxPlaying
        /\ handleLiveView(i) \/ onTheaterMode(i) \/ handleStop(i)
        => LiveOf(playingItems', cameras[j]) ]_vars

\* ---- a grid of five cameras, at most four of them live
InitGrid == Dashboard(Grid, SubSeq(InventoryNetworks, 1, 1), MediaItems)

NextGrid ==
  \/ \E i \in 1..Len(cameras) : handleLiveView(i)
  \/ \E i \in 1..Len(cameras) : handleStop(i)
  \/ handleStopAll
  \/ \E i \in 1..Len(cameras) : onTheaterMode(i)
  \/ escapeTheater
  \/ handleToggleRecording
  \/ \E m \in 1..Len(media) : handlePlayMedia(m)
  \/ \E tab \in {"cameras", "clips"} : handleTabChange(tab)

SpecGrid == InitGrid /\ [][NextGrid]_vars

\* ---- C16
\* the URL handleLiveView(camera) computes now, not as a restart
PlainUrl(camera) ==
  LiveUrl(serverPort, ResolveNetwork(camera, networks), camera, recording, 0)

\* the camera of card i plays under the URL a plain handleLiveView gives it
PlaysPlain(i) ==
  /\ LiveOf(playingItems, cameras[i])
  /\ Get(playingItems, cameras[i].id).url = PlainUrl(cameras[i])

Entries(items) == {items[k] : k \in 1..Len(items)}

C17_StopReleases ==
  [][ /\ \A i \in 1..Len(cameras) :
           handleStop(i) =>
             /\ Entries(playingItems') =
                  {x \in Entries(playingItems) : x.id # cameras[i].id}
             /\ Len(playingItems') = Len(playingItems) - 1
             /\ theaterMode' = (theaterMode /\ playingItems' # <<>>)
      /\ handleStopAll => playingItems' = <<>> /\ ~theaterMode' ]_vars

\* theater mode still on over the views that are left: the camera that was
\* restarted for the overlay is no longer among them
C17_Witness ==
  /\ theaterMode
  /\ playingItems # <<>>
  /\ \A k \in 1..Len(playingItems) : playingItems[k].url[7] = 0

\* everything released after recording was switched on over a live view
C17_WitnessAll ==
  /\ ~theaterMode
  /\ playingItems = <<>>
  /\ recording

\* ---- C18
\* login / verify_pin commands awaiting their answer
LoginCommands(fl) == CopiesIn(LoginFlow, fl)

PinCommands(fl) == CopiesIn(PinFlow, fl)

\* this step is the answer of the login / verify_pin command
LoginAnswered ==
  /\ event'[1] = "login"
  /\ event'[2] \in {"pin", "ok"} \/ (event'[2] = "failed" /\ event'[3] = "throw")

PinAnswered ==
  /\ event'[1] = "pin"
  /\ event'[2] = "ok" \/ (event'[2] = "failed" /\ event'[3] = "throw")

Issued(b) == IF b THEN 1 ELSE 0

\* C18: a login command is issued by a submission of the login form and by
\* nothing else, one per submission, and likewise verify_pin by the PIN form;
\* the step that receives a rejection shows an error, ends loading and issues
\* no command again.
C18_SingleAttempt ==
  [][ /\ LoginCommands(flows') = LoginCommands(flows)
                                  + Issued(event' = << "login", "start", "" >>)
                                  - Issued(LoginAnswered)
      /\ PinCommands(flows') = PinCommands(flows)
                                + Issued(event' = << "pin", "start", "" >>)
                                - Issued(PinAnswered)
      /\ event'[1] \in {"login", "pin"} /\ event'[2] = "failed" =>
           error' # "" /\ ~loading' ]_vars

\* the login command was rejected: the form shows the error, nothing is in flight
C18_Witness ==
  /\ event = << "login", "failed", "throw" >>
  /\ error # ""
  /\ flows = EmptyBag

\* a PIN was rejected: the form shows the error, no verify_pin is pending
C18_WitnessPin ==
  /\ event = << "pin", "failed", "throw" >>
  /\ error # ""
  /\ PinCommands(flows) = 0
  /\ LoginCommands(flows) = 0

\* ---- downloads from the cards of the clips tab, desktop or hosted
InitDownload ==
  /\ Signed(SubSeq(Inventory, 1, 1), SubSeq(InventoryNetworks, 1, 1), MediaItems, "clips", {})
  /\ \E desktop \in BOOLEAN : cards = [id \in CardIds |-> NoCard(desktop)]

NextDownload ==
  \/ \E m \in 1..Len(media) : handleDownload(m)
  \/ \E id \in CardIds, r \in {"path", "none", "throw"} : saveReturns(id, r)
  \/ \E id \in CardIds, received \in 0..MaxBytes, total \in 0..MaxBytes :
       progressEvent(id, received, total)
  \/ \E id \in CardIds, ok \in BOOLEAN : invokeReturns(id, ok)
  \/ \E id \in CardIds, r \in {"ok", "status", "throw"}, total \in 0..(MaxBytes - 1),
        streamed \in BOOLEAN : responseArrives(id, r, total, streamed)
  \/ \E id \in CardIds, n \in 1..2 : chunkArrives(id, n)
  \/ \E id \in CardIds : streamEnds(id)
  \/ \E id \in CardIds : streamFails(id)

SpecDownload == InitDownload /\ [][NextDownload]_vars

\* ---- C19
\* this step is of the download of card id and is of kind `what`
DownloadStep(id, what) ==
  /\ event'[1] = "download"
  /\ event'[2] \in what
  /\ cards'[id] # cards[id]

\* C19: a click issues at most one download request; the step in which the
\* download fails ends downloading, sets the download error and leaves nothing
\* pending that could ask again; success and a cancelled save dialog end
\* downloading too; a card that is downloading starts no other download.
C19_DownloadSingleAttempt ==
  [][ \A id \in CardIds :
        /\ cards'[id].requests <= 1
        /\ DownloadStep(id, {"failed"}) =>
             /\ ~cards'[id].downloading
             /\ cards'[id].downloadError # ""
             /\ cards'[id].pc = "idle"
             /\ cards'[id].requests = cards[id].requests
        /\ DownloadStep(id, {"done", "cancelled"}) =>
             ~cards'[id].downloading /\ cards'[id].pc = "idle"
        /\ cards[id].downloading /\ event'[2] \in {"start", "missing"} =>
             cards'[id] = cards[id] ]_vars

\* the one request of a click failed: the card shows the error and is idle
C19_Witness ==
  \E id \in CardIds :
    /\ event[1] = "download" /\ event[2] = "failed"
    /\ cards[id].requests = 1
    /\ ~cards[id].downloading
    /\ cards[id].downloadError # ""

\* the save dialog was cancelled: no request was made, the card is idle
C19_WitnessCancelled ==
  \E id \in CardIds :
    /\ event = << "download", "cancelled", "none" >>
    /\ cards[id].requests = 0
    /\ ~cards[id].downloading
    /\ cards[id].downloadError = ""
    /\ cards[id].downloadProgress = 0

\* ---- C20
\* C20: in hosted mode the progress of a download is an integer in 0..100,
\* never decreases while it runs, and is 100 when it succeeds, whatever size
\* was announced; a response that is not OK fails the download with the
\* progress still at the 0 of its start.
C20_HostedProgress ==
  [][ \A id \in CardIds :
        ~cards[id].desktop =>
          /\ cards'[id].downloading => cards'[id].downloadProgress \in 0..100
          /\ cards[id].downloading =>
               cards'[id].downloadProgress >= cards[id].downloadProgress
          /\ DownloadStep(id, {"done"}) => cards'[id].downloadProgress = 100
          /\ DownloadStep(id, {"failed"}) /\ event'[3] = "status" =>
               cards[id].downloadProgress = 0 /\ cards'[id].downloadProgress = 0 ]_vars

\* a hosted download succeeded after more bytes than announced
C20_Witness ==
  \E id \in CardIds :
    /\ ~cards[id].desktop
    /\ event = << "download", "done", "" >>
    /\ cards[id].total > 0 /\ cards[id].received > cards[id].total
    /\ cards[id].downloadProgress = 100

\* a hosted download succeeded without an announced size
C20_WitnessUnknownTotal ==
  \E id \in CardIds :
    /\ ~cards[id].desktop
    /\ event = << "download", "done", "" >>
    /\ cards[id].total = 0 /\ cards[id].received > 0
    /\ cards[id].downloadProgress = 100

\* a hosted download part of the way: a third of the bytes have arrived
C20_WitnessPartial ==
  \E id \in CardIds :
    /\ ~cards[id].desktop
    /\ cards[id].downloading
    /\ cards[id].total = 3 /\ cards[id].received = 1
    /\ cards[id].downloadProgress = 33

\* ---- C15
DeleteFlows == {f \in Suspended : f.kind = "delete" /\ f.pc = "delete_media_items"}

\* C15: when delete_media_items answers the ids R it could not delete, the
\* media list loses exactly the selected ids that are not in R, the selection
\* becomes R and select mode is on iff R is not empty; when the command
\* rejects, media, selection and select mode stay as they were.
C15_DeletePartialFailure ==
  [][ \A f \in DeleteFlows :
        /\ \A R \in SUBSET f.sel :
             deleteReturns(f, "ok", R) =>
               /\ media' = SelectSeq(media, LAMBDA m : m.id \notin (f.sel \ R))
               /\ selectedMediaIds' = R
               /\ selectMode' = (R # {})
        /\ \A r \in Replies \ {"ok"} :
             deleteReturns(f, r, {}) =>
               /\ media' = media
               /\ selectedMediaIds' = selectedMediaIds
               /\ selectMode' = selectMode ]_vars

\* ---- motion events: the account records clips while the dashboard refreshes
\* the clips the cameras may record; clip 4 was created before clip 3
Recordable == {Clip(2, 20, <<>>, <<>>), Clip(3, 30, <<>>, <<>>), Clip(4, 25, <<>>, <<>>)}

\* the ids on the first page of the account's listing
ListedIds == MediaIds(PageItems(1))

\* a camera recorded `c`, or the cloud lists it again
clipRecorded(c) ==
  /\ c.id \notin ListedIds
  /\ account' = [account EXCEPT !.pages[1] =
                   SortMedia({@[k] : k \in 1..Len(@)} \cup {c})]
  /\ UNCHANGED <<sessVars, event, dataVars, activeTab, playingItems, theaterMode,
                 recording, clock, players, notificationIconPath, proxyReqs, fetched,
                 lastAnswer, cards>>

\* the cloud stops listing clip `id` (deleted elsewhere, or older than the window)
clipRemoved(id) ==
  /\ id \in ListedIds
  /\ account' = [account EXCEPT !.pages[1] = SeqFilterOut(@, id)]
  /\ UNCHANGED <<sessVars, event, dataVars, activeTab, playingItems, theaterMode,
                 recording, clock, players, notificationIconPath, proxyReqs, fetched,
                 lastAnswer, cards>>

\* the dashboard was entered while its first fetchData failed: nothing listed yet;
\* the account holds no clip, or clip 2
InitNotify ==
  /\ Client(SubSeq(Inventory, 1, 1), SubSeq(InventoryNetworks, 1, 1), <<>>, "cameras", {})
  /\ \E first \in {<<>>, << Clip(2, 20, <<>>, <<>>) >>} :
       account = [cams |-> SubSeq(Inventory, 1, 1),
                  nets |-> SubSeq(InventoryNetworks, 1, 1),
                  pages |-> << first >>]
  /\ cards = [id \in CardIds |-> NoCard(TRUE)]

NextNotify ==
  \/ Refresh
  \/ \E f \in Suspended, r \in {"ok", "error"} : homescreenReturns(f, r)
  \/ \E f \in Suspended, r \in {"ok", "error"} : mediaPageReturns(f, r)
  \/ \E f \in Suspended, r \in PermissionAnswers : permissionReturns(f, r)
  \/ \E c \in Recordable : clipRecorded(c)
  \/ \E id \in ListedIds : clipRemoved(id)
  \/ \E tab \in {"cameras", "clips"} : handleTabChange(tab)

SpecNotify == InitNotify /\ [][NextNotify]_vars

\* ---- C21
\* the listed clips that no refresh has listed before
FirstListed == IF seenClips = <<>> THEN {} ELSE ListedIds \ seenClips[1]

\* C21: a refresh that lists the clips adds to newClipCount the number of listed
\* clips that no earlier refresh had listed, and nothing when it is the first
\* successful refresh; a notification announces as many clips as the refresh
\* that sends it added.
C21_EachNewClipCountedOnce ==
  [][ \A f \in Suspended :
        /\ mediaPageReturns(f, "ok")
             => newClipCount' - newClipCount = Cardinality(FirstListed)
        /\ permissionReturns(f, "granted")
             => notified' - notified = f.fresh ]_vars

\* ---- C22
\* the executions of fetchData past its guard, awaiting one of their calls
FetchBodies == KindCount("fetch")

\* C22: at most one execution of the body of fetchData is in flight.
C22_OneRefreshInFlight == FetchBodies <= 1

\* ---- a session that ends while its requests are in flight
\* the clips tab after a refresh that listed clip 1; clip 7 was recorded since
InitSession ==
  /\ Client(SubSeq(Inventory, 1, 1), SubSeq(InventoryNetworks, 1, 1),
            SubSeq(MediaItems, 2, 2), "clips", {})
  /\ account = [cams |-> SubSeq(Inventory, 1, 1),
                nets |-> SubSeq(InventoryNetworks, 1, 1),
                pages |-> << MediaItems, OlderItems >>]
  /\ cards = [id \in CardIds |-> NoCard(TRUE)]

NextSession ==
  \/ Refresh
  \/ handleLoadMoreClips
  \/ LogoutClick
  \/ \E ok \in BOOLEAN : logoutReturns(ok)
  \/ \E f \in Suspended, r \in Replies : homescreenReturns(f, r)
  \/ \E f \in Suspended, r \in Replies : mediaPageReturns(f, r)
  \/ \E f \in Suspended, r \in PermissionAnswers : permissionReturns(f, r)
  \/ \E f \in Suspended, r \in Replies : loadMoreReturns(f, r)
  \/ \E f \in Suspended, r \in Replies : thumbnailReturns(f, r)

SpecSession == InitSession /\ [][NextSession]_vars

\* ---- C23
\* the fetchData and handleLoadMoreClips executions that began under a session
\* that has been logged out since
StaleFlows == {f \in Suspended : f.kind \in {"fetch", "more"} /\ f.token # sessionTokenRef}

\* an await of `f` settles without a rejection
Settles(f) ==
  \/ homescreenReturns(f, "ok")
  \/ mediaPageReturns(f, "ok")
  \/ \E r \in {"granted", "denied"} : permissionReturns(f, r)
  \/ loadMoreReturns(f, "ok")

\* handleLogout has cleared the inventory and the clips and shows the login form
LoggedOut == step = "login" /\ LogoutFlow \notin Suspended

\* C23: once handleLogout has cleared the client, a fetchData or
\* handleLoadMoreClips that began before the logout writes none of cameras,
\* networks, media, mediaPage and mediaHasMore when one of its awaits settles.
C23_NoStaleWrites ==
  [][ LoggedOut =>
        \A f \in StaleFlows :
          Settles(f) => UNCHANGED <<cameras, networks, media, mediaPage, mediaHasMore>> ]_vars

\* ---- C24
FetchFlows == {f \in Suspended : f.kind = "fetch"}

\* one of the awaits of the fetchData execution `f` settles
FetchSettles(f) ==
  \/ \E r \in Replies : homescreenReturns(f, r)
  \/ \E r \in Replies : mediaPageReturns(f, r)
  \/ \E r \in PermissionAnswers : permissionReturns(f, r)

\* ... and the execution goes on to its next await
GoesOn == event' \in {<< "fetch", "homescreen", "" >>, << "fetch", "new", "" >>}

\* C24: when an execution of fetchData finishes, one follow-up execution
\* starts if a call was queued during its flight and none otherwise, whether
\* it succeeded, failed or was stale; and a queued call is taken off the
\* queue only by such a finish.
C24_QueuedRefreshRuns ==
  [][ /\ \A f \in FetchFlows :
           (FetchSettles(f) /\ ~GoesOn)
             => /\ KindCount("fetch")' =
                     KindCount("fetch") - 1 + (IF fetchQueuedRef THEN 1 ELSE 0)
                /\ ~fetchQueuedRef'
      /\ (fetchQueuedRef /\ ~fetchQueuedRef')
           => \E f \in FetchFlows : FetchSettles(f) /\ ~GoesOn ]_vars

\* ---- C25
\* C25: at most four items play at once; handleLiveView for a camera that is
\* not playing while four items play drops the first entry in insertion
\* order and appends the camera's; a restart of a playing camera (theater
\* mode) leaves every other entry in place; handlePlayMedia leaves the clip as
\* the only item.
C25_AtMostFourPlaying ==
  [][ /\ Len(playingItems') <= MaxPlaying
      /\ \A i \in 1..Len(cameras) :
           (handleLiveView(i) /\ Len(playingItems) = MaxPlaying
              /\ ~Has(playingItems, cameras[i].id))
             => /\ SubSeq(playingItems', 1, MaxPlaying - 1) = Tail(playingItems)
                /\ playingItems'[MaxPlaying].id = cameras[i].id
      /\ \A i \in 1..Len(cameras) :
           onTheaterMode(i)
             => /\ Len(playingItems') = Len(playingItems)
                /\ {x \in Entries(playingItems') : x.id # cameras[i].id} =
                     {x \in Entries(playingItems) : x.id # cameras[i].id}
      /\ \A m \in 1..Len(media) :
           handlePlayMedia(m)
             => /\ Len(playingItems') = 1
                /\ playingItems'[1].id = media[m].id
                /\ playingItems'[1].type = "media" ]_vars

\* four cameras play, the fifth does not, no clip among them
C25_Witness ==
  /\ Len(playingItems) = MaxPlaying
  /\ \A k \in 1..MaxPlaying : playingItems[k].type = "camera"
  /\ \E i \in 1..Len(cameras) : ~Has(playingItems, cameras[i].id)

\* a clip plays alone on the clips tab while theater mode is still on
C25_WitnessClip ==
  /\ Len(playingItems) = 1
  /\ playingItems[1].type = "media"
  /\ theaterMode

\* ---- C26
\* the hidden entries younger than the TTL
FreshlyHidden == {h \in hiddenMediaIds : ~(clock - h[2] > hiddenMediaTtlMs)}

\* C26: a clip deleted less than the TTL ago is not in the media list, whatever
\* the account's listing still returns.
C26_DeletedStaysHidden == \A h \in FreshlyHidden : h[1] \notin MediaIds(media)

\* ---- paging through the clips
\* a listing of three pages: clip 1 is on the first two with different content,
\* clips 6 and 1 were created at the same time, the dates of clips 9 and 8 do
\* not parse, the third page is empty
Pages ==
  << << Clip(7, 20, <<>>, <<>>), Clip(1, 10, <<>>, <<>>) >>,
     << Clip(6, 10, <<>>, <<>>), Clip(1, 10, << BlinkUrl >>, <<>>),
        Clip(9, 0, <<>>, <<>>), Clip(8, 0, <<>>, <<>>) >>,
     <<>> >>

InitPages ==
  /\ Client(SubSeq(Inventory, 1, 1), SubSeq(InventoryNetworks, 1, 1), Pages[1], "clips", {})
  /\ account = [cams |-> SubSeq(Inventory, 1, 1),
                nets |-> SubSeq(InventoryNetworks, 1, 1),
                pages |-> Pages]
  /\ cards = [id \in CardIds |-> NoCard(TRUE)]

NextPages ==
  \/ Refresh
  \/ handleLoadMoreClips
  \/ LogoutClick
  \/ \E ok \in BOOLEAN : logoutReturns(ok)
  \/ \E f \in Suspended, r \in Replies : homescreenReturns(f, r)
  \/ \E f \in Suspended, r \in Replies : mediaPageReturns(f, r)
  \/ \E f \in Suspended, r \in Replies : loadMoreReturns(f, r)

SpecPages == InitPages /\ [][NextPages]_vars

\* ---- C27
\* x is listed before y: the later creation time first (0, a date that does not
\* parse, is after every date that does), the higher id first among equals
ListedBefore(x, y) ==
  IF x.created_at # y.created_at THEN x.created_at > y.created_at ELSE x.id > y.id

\* every clip of `page` is in `list` as the page has it
Holds(list, page) == \A k \in 1..Len(page) : \E j \in 1..Len(list) : list[j] = page[k]

\* every clip of `prev` whose id the page does not list is still in `list`
Keeps(list, prev, page) ==
  \A k \in 1..Len(prev) :
    prev[k].id \notin MediaIds(page) => \E j \in 1..Len(list) : list[j] = prev[k]

\* C27: the media list never holds an id twice and is in listing order; a page
\* that a refresh or load-more puts into the list replaces the entries with its
\* ids and keeps the others; a load-more answer sets mediaPage to the page
\* it asked for when that page held clips, which raises it by one or leaves
\* it, and every other answer leaves mediaPage and the list alone.
C27_MediaListWellFormed ==
  [][ /\ \A j, k \in 1..Len(media') :
           j < k => media'[j].id # media'[k].id /\ ListedBefore(media'[j], media'[k])
      /\ \A f \in Suspended :
           (mediaPageReturns(f, "ok") /\ f.token = sessionTokenRef)
             => Holds(media', PageItems(1)) /\ Keeps(media', media, PageItems(1))
      /\ \A f \in Suspended, r \in Replies :
           loadMoreReturns(f, r)
             => IF r = "ok" /\ f.token = sessionTokenRef /\ PageItems(f.page) # <<>>
                THEN /\ mediaPage' = f.page
                     /\ mediaPage' \in {mediaPage, mediaPage + 1}
                     /\ Holds(media', PageItems(f.page))
                     /\ Keeps(media', media, PageItems(f.page))
                ELSE mediaPage' = mediaPage /\ media' = media ]_vars

\* both pages are in the list: clip 1 as the second page has it, between the
\* clip created at the same time and the clips whose dates do not parse
C27_Witness ==
  /\ mediaPage = 2
  /\ Len(media) = 5
  /\ media[3] = Pages[2][2]
  /\ media[4].id = 9

\* the list after the page past the last one was asked for
C27_WitnessEnd == mediaPage = 2 /\ ~mediaHasMore /\ step = "dashboard"

\* ---- C28
\* C28: in every reachable state a non-empty clip selection implies that
\* select mode is on, and every selected id is the id of a clip in the media
\* list (the effect on [media] is part of the step that changed the list).
C28_SelectionWithinMedia ==
  /\ selectedMediaIds # {} => selectMode
  /\ selectedMediaIds \subseteq MediaIds(media)

\* ---- C29
\* the step shows the dashboard where it showed a form
EntersDashboard == step # "dashboard" /\ step' = "dashboard"

\* the startup flow `f` leaves this step past getServerPortWithRetry
PortObtained(f) ==
  \/ f.pc = "fetchData"
  \/ /\ f.pc = "get_server_port"
     /\ \E fails \in PortFailures : fails < maxAttempts /\ getServerPortReturns(f, fails)
     /\ serverPort' = Port

\* the startup flow `f` ended in this step without touching what is on screen
InitGaveUp(f) ==
  /\ flows' = flows (-) SetToBag({f})
  /\ step' = step
  /\ serverPort' = serverPort
  /\ fetchInFlightRef' = fetchInFlightRef

\* C29: a step that enters the dashboard and is taken by neither handleLogin
\* nor handleVerifyPin is taken by init() after check_auth answered true and
\* getServerPortWithRetry returned a port; when check_auth answers false or
\* throws, or getServerPortWithRetry throws, init() ends: no refresh is
\* started and the step stays what it was ("login" at startup).
C29_StartupEntersDashboard ==
  [][ /\ (EntersDashboard /\ event'[1] \notin {"login", "pin"})
           => /\ event' = << "init", "dashboard", "true" >>
              /\ \E f \in Suspended :
                   f.kind = "init" /\ f.got = "true" /\ PortObtained(f)
      /\ \A r \in {"false", "throw"} :
           checkAuthReturns(r) => InitGaveUp(InitFlow)
      /\ \A f \in Suspended :
           (f.kind = "init" /\ getServerPortReturns(f, maxAttempts)) => InitGaveUp(f) ]_vars

\* init() has entered the dashboard of the session it found, nobody signed in
C29_Witness ==
  /\ event = << "init", "dashboard", "true" >>
  /\ step = "dashboard"
  /\ serverPort = Port
  /\ KindCount("login") = 0 /\ sessionTokenRef = 0

\* check_auth answered false: the login form stays
C29_WitnessNoSession ==
  event = << "init", "failed", "false" >> /\ step = "login" /\ serverPort = 0

\* check_auth answered true and every get_server_port call failed
C29_WitnessNoPort ==
  event = << "init", "failed", "true" >> /\ step = "login" /\ serverPort = 0

\* ---- getServerPortWithRetry, attempt by attempt
\* a delay that keeps doubling
NextDelay_uncapped(d) == d * 2

\* delayMs = Math.min(delayMs * 2, 1200)
NextDelay(d) == Min(d * 2, 1200)

\* get_server_port resolves: the loop returns the port to its caller
portCallResolves(f) ==
  /\ f \in Suspended
  /\ f.pc = "get_server_port"
  /\ Assign(AwaitFetch(Resume(Cur, f), portWithRetry(f.attempt)[1], f.kind, f.got, f.hidden),
            IF fetchInFlightRef THEN << f.kind, "dashboard", f.got >>
            ELSE << f.kind, "port", f.got >>)

\* get_server_port rejects: attempt += 1, then the timer of delayMs is awaited
portCallRejected(f) ==
  /\ f \in Suspended
  /\ f.pc = "get_server_port"
  /\ Assign(Suspend(Resume(Cur, f), [f EXCEPT !.attempt = @ + 1, !.pc = "setTimeout"]),
            << f.kind, "retry", f.got >>)

\* the timer fires: delayMs is doubled up to the cap and the loop condition is
\* tested; the next call is made, or 'Server not ready' is thrown to the caller
portTimerFires(f) ==
  /\ f \in Suspended
  /\ f.pc = "setTimeout"
  /\ IF f.attempt < maxAttempts
     THEN Assign(Suspend(Resume(Cur, f),
                         [f EXCEPT !.waited = Append(@, f.delayMs),
                                   !.delayMs = NextDelay(@),
                                   !.pc = "get_server_port"]),
                 << f.kind, "call", f.got >>)
     ELSE Assign(Caught(Resume(Cur, f), f.kind, "Server not ready"),
                 << f.kind, "failed", f.got >>)

\* the loop of the handler `kind` takes a step
PortStep(kind) ==
  \E f \in Suspended :
    /\ f.kind = kind
    /\ portCallResolves(f) \/ portCallRejected(f) \/ portTimerFires(f)

\* the handlers that call getServerPortWithRetry here
PortCallers == {"init", "login"}

NextRetry ==
  \/ \E r \in {"true", "false", "throw"} : checkAuthReturns(r)
  \/ handleLogin
  \/ \E r \in {"OK", "2FA_REQUIRED", "throw"} : loginReturns(r)
  \/ \E f \in Suspended : portCallResolves(f)
  \/ \E f \in Suspended : portCallRejected(f)
  \/ \E f \in Suspended : portTimerFires(f)

\* every invoke settles and every timer fires
SpecRetry ==
  Init /\ [][NextRetry]_vars /\ \A kind \in PortCallers : WF_vars(PortStep(kind))

\* ---- C30
\* the handlers inside getServerPortWithRetry
LoopFlows == {f \in Suspended : f.pc \in {"get_server_port", "setTimeout"}}

InLoop(kind) == \E f \in LoopFlows : f.kind = kind

\* calls of get_server_port made so far by `f`, the one in flight included
Calls(f) == f.attempt + (IF f.pc = "get_server_port" THEN 1 ELSE 0)

\* the wait after the k-th failure
ClaimedDelay(k) ==
  IF k = 1 THEN 150 ELSE IF k = 2 THEN 300 ELSE IF k = 3 THEN 600 ELSE 1200

\* the loop of `f` is over after this step
Ended(f) == event'[1] = f.kind /\ ~(\E g \in BagToSet(flows') : g.kind = f.kind /\ g \in LoopFlows')

\* C30: getServerPortWithRetry terminates; it makes at most 10 calls, the
\* waits behind it are 150, 300, 600, 1200, 1200, ... ms, one after each
\* failed call; it returns the port at the first call that succeeds and
\* throws 'Server not ready' exactly when 10 calls have failed.
C30_PortRetryTerminates ==
  /\ [](\A f \in LoopFlows :
          /\ Calls(f) <= maxAttempts
          /\ f.waited = [k \in 1..(Calls(f) - 1) |-> ClaimedDelay(k)]
          /\ f.pc = "setTimeout" => f.delayMs = ClaimedDelay(f.attempt))
  /\ [][ \A f \in LoopFlows :
           /\ portCallResolves(f) => Ended(f) /\ serverPort' = Port
           /\ Ended(f) =>
                IF f.attempt = maxAttempts
                THEN /\ f.pc = "setTimeout"
                     /\ event'[2] = "failed"
                     /\ f.kind = "login" => error' = "Server not ready"
                     /\ serverPort' = serverPort
                ELSE /\ f.pc = "get_server_port"
                     /\ event'[2] \in {"port", "dashboard"}
                     /\ serverPort' = Port ]_vars
  /\ \A kind \in PortCallers : InLoop(kind) ~> ~InLoop(kind)

\* the tenth call is in flight, nine waits behind it
C30_Witness ==
  \E f \in LoopFlows :
    /\ f.pc = "get_server_port"
    /\ f.waited = << 150, 300, 600, 1200, 1200, 1200, 1200, 1200, 1200 >>

\* ten calls failed: the login form shows 'Server not ready'
C30_WitnessNotReady ==
  event = << "login", "failed", "OK" >> /\ error = "Server not ready" /\ serverPort = 0

\* the port was returned by a call that followed failed ones
C30_WitnessReturned ==
  event[2] = "port" /\ serverPort = Port /\ ~InLoop("init") /\ ~InLoop("login")

====
